---------------------------- MODULE Spec2Model ----------------------------
(***************************************************************************)
(* A model of the retrieval-augmented literature assistant                 *)
(* (backend/lambda/rag_pipeline/lambda_function.py) and of the result      *)
(* merging and ranking of the search lambda                                *)
(* (backend/lambda/search_papers/lambda_function_multisource.py).          *)
(*                                                                         *)
(* Each component is modelled with its own specification:                  *)
(*   Spec          ingest_papers, the time-budgeted ingestion loop         *)
(*   SpecMerge     merge_papers, run on a list and on a permutation of it  *)
(*   SpecCite      build_references followed by build_context              *)
(*   SpecRerank    hybrid_rerank_matches                                   *)
(*   SpecChunk     chunk_text                                              *)
(*   SpecSections  split_sections                                          *)
(*   SpecHandle    handle_ingest, running ingest_papers on its selection   *)
(*   SpecLambda    lambda_handler with handle_ask, handle_insights and     *)
(*                 handle_gaps                                             *)
(*   SpecReingest  ingest_papers called twice on the same papers           *)
(*   SpecDefer     ingest_papers on three papers under a budget            *)
(*   SpecRemerge   merge_papers called on its own output                   *)
(*   SpecDiscover  discover_papers                                         *)
(*   SpecDedup     deduplicate_papers of the search lambda                 *)
(*   SpecRank      relevance_rank_with_source_diversity of the search      *)
(*                 lambda                                                  *)
(*                                                                         *)
(* Text is a sequence of one-character strings, so that cleaning,          *)
(* lower-casing and length are computed, not assumed.  A few multi-        *)
(* character atoms stand for fixed pieces of text whose inner structure    *)
(* no operation looks at (the DOI resolver prefix, words of the fixed      *)
(* fallback sentence).                                                     *)
(***************************************************************************)
EXTENDS Integers, Sequences, FiniteSets, TLC

VARIABLES
    \* ---- ingest_papers ----
    papers,            \* the input list of raw records
    max_seconds,       \* the budget; 0 stands for None (no budget)
    extract_pdf,       \* the extract_pdf argument
    chunk_params,      \* chunk_size_words, overlap_words, min_chunk_words
    pc,                \* position of the call in the loop body
    idx,               \* 1-based position of the paper being processed
    clock,             \* whole seconds of time.time() - start_time
    paper,             \* the normalized paper of the current iteration
    text_parts,        \* the current iteration's text_parts
    chunk_rows,        \* the current iteration's chunk_rows
    ingested_papers,
    ingested_chunks,
    skipped,
    failed,
    timed_out,
    budget_hit_at,     \* positions whose loop-entry budget test was true
    mismatch_at,       \* positions whose embedding call returned another number of vectors
    store,             \* ids of the vectors upserted to the vector store
    \* ---- merge_papers ----
    raws,              \* the input list of raw records
    perm,              \* a permutation of 1..Len(raws)
    mpos,              \* number of records merged so far
    selected,          \* the selected dict of the run on raws, in insertion order
    selectedP,         \* the selected dict of the run on the permuted list
    \* ---- build_references / build_context ----
    matches,           \* the ranked match list
    cpc,               \* "refs", "ctx", "join" or "done"
    cpos,              \* 1-based position of the next match of the running loop
    references,
    paper_to_citation,
    used_chunks,
    context_parts,     \* the blocks placed in the context, as their lengths
    total_chars,
    halted,            \* build_context left its loop through break
    context_len,       \* length of the returned context text
    \* ---- hybrid_rerank_matches ----
    question,
    rmatches,
    top_k,
    rpc,               \* "score", "sort" or "done"
    ranked,
    reranked,          \* the returned list
    \* ---- chunk_text ----
    ctext,             \* the text argument
    cparams,           \* chunk_size_words, overlap_words, min_words
    cdone,             \* chunk_text has returned
    chunk_list,        \* the returned list
    \* ---- split_sections ----
    stext,             \* the text argument
    sdone,             \* split_sections has returned
    section_list,      \* the returned list
    \* ---- handle_ingest ----
    hbody,             \* the request body
    hpc,               \* "call", "select", "ingest", "returned" or "raised"
    all_candidates,
    deferred_due_cap,
    query_pdf_extraction_selected,
    hresult,           \* the returned dict
    \* ---- lambda_handler ----
    event,             \* the Lambda event: method and JSON body
    environ,           \* which configuration variables are set
    lpc,               \* position in lambda_handler and the action handler
    route,             \* the action the request was dispatched to
    matches_found,     \* whether retrieval returned a match
    response,          \* create_response's value
    \* ---- second call of ingest_papers ----
    pass_no,           \* 1 during the first call, 2 during the second
    first_store,       \* the vector store when the first call returned
    \* ---- merge_papers on its own output ----
    again,             \* selected of the second call, on the first call's output
    apos,              \* records of the output the second call has consumed
    \* ---- discover_papers ----
    sources,           \* the requested source names
    dmax,              \* max_seconds of discover_papers; 0 stands for None
    dclock,            \* seconds since start_time
    dpc,               \* the block discover_papers is at
    discovered,        \* the records collected so far
    dbudget_hit,       \* budget_hit
    queried_at,        \* ghost: for each adapter called, the seconds elapsed at its call
    returned_by,       \* ghost: for each adapter that returned, its records
    dresult,           \* the list discover_papers returns
    \* ---- deduplicate_papers (search lambda) ----
    dd_papers,         \* the input list
    dd_pos,            \* records consumed
    by_key,            \* the dict, as key/paper pairs in insertion order; from is the ghost index of the stored record
    \* ---- relevance_rank_with_source_diversity (search lambda) ----
    rk_papers,         \* the input list
    rk_limit,          \* limit
    rk_pc,             \* where the function is
    rk_pos,            \* papers scored so far
    rk_scores,         \* _relevanceScore of each paper, in millionths
    buckets,           \* source/items pairs in insertion order; items are positions in rk_papers
    source_order,      \* the sources in the order of the rounds
    rk_ranked             \* positions in rk_papers of the papers picked

ingestVars == <<papers, max_seconds, extract_pdf, chunk_params, pc, idx, clock,
                paper, text_parts, chunk_rows, ingested_papers, ingested_chunks,
                skipped, failed, timed_out, budget_hit_at, mismatch_at, store>>
mergeVars == <<raws, perm, mpos, selected, selectedP>>
citeVars == <<matches, cpc, cpos, references, paper_to_citation, used_chunks,
              context_parts, total_chars, halted, context_len>>
rerankVars == <<question, rmatches, top_k, rpc, ranked, reranked>>
chunkVars == <<ctext, cparams, cdone, chunk_list>>
sectionsVars == <<stext, sdone, section_list>>
handleVars == <<hbody, hpc, all_candidates, deferred_due_cap,
                query_pdf_extraction_selected, hresult>>
lambdaVars == <<event, environ, lpc, route, matches_found, response>>
reingestVars == <<pass_no, first_store>>
remergeVars == <<again, apos>>
discoverVars == <<sources, dmax, dclock, dpc, discovered, dbudget_hit,
                  queried_at, returned_by, dresult>>
dedupVars == <<dd_papers, dd_pos, by_key>>
rankVars == <<rk_papers, rk_limit, rk_pc, rk_pos, rk_scores, buckets,
              source_order, rk_ranked>>
vars == <<ingestVars, mergeVars, citeVars, rerankVars, chunkVars,
          sectionsVars, handleVars, lambdaVars, reingestVars, remergeVars,
          discoverVars, dedupVars, rankVars>>
notIngest == <<mergeVars, citeVars, rerankVars, chunkVars, sectionsVars,
               handleVars, lambdaVars, reingestVars, remergeVars,
               discoverVars, dedupVars, rankVars>>
notMerge == <<ingestVars, citeVars, rerankVars, chunkVars, sectionsVars,
              handleVars, lambdaVars, reingestVars, remergeVars,
              discoverVars, dedupVars, rankVars>>
notCite == <<ingestVars, mergeVars, rerankVars, chunkVars, sectionsVars,
             handleVars, lambdaVars, reingestVars, remergeVars, discoverVars,
             dedupVars, rankVars>>
notRerank == <<ingestVars, mergeVars, citeVars, chunkVars, sectionsVars,
               handleVars, lambdaVars, reingestVars, remergeVars,
               discoverVars, dedupVars, rankVars>>
notChunk == <<ingestVars, mergeVars, citeVars, rerankVars, sectionsVars,
              handleVars, lambdaVars, reingestVars, remergeVars,
              discoverVars, dedupVars, rankVars>>
notSections == <<ingestVars, mergeVars, citeVars, rerankVars, chunkVars,
                 handleVars, lambdaVars, reingestVars, remergeVars,
                 discoverVars, dedupVars, rankVars>>
notHandle == <<ingestVars, mergeVars, citeVars, rerankVars, chunkVars,
               sectionsVars, lambdaVars, reingestVars, remergeVars,
               discoverVars, dedupVars, rankVars>>
notLambda == <<ingestVars, mergeVars, citeVars, rerankVars, chunkVars,
               sectionsVars, handleVars, reingestVars, remergeVars,
               discoverVars, dedupVars, rankVars>>
notReingest == <<ingestVars, mergeVars, citeVars, rerankVars, chunkVars,
                 sectionsVars, handleVars, lambdaVars, remergeVars,
                 discoverVars, dedupVars, rankVars>>
notRemerge == <<ingestVars, mergeVars, citeVars, rerankVars, chunkVars,
                sectionsVars, handleVars, lambdaVars, reingestVars,
                discoverVars, dedupVars, rankVars>>
notDiscover == <<ingestVars, mergeVars, citeVars, rerankVars, chunkVars,
                 sectionsVars, handleVars, lambdaVars, reingestVars,
                 remergeVars, dedupVars, rankVars>>
notDedup == <<ingestVars, mergeVars, citeVars, rerankVars, chunkVars,
              sectionsVars, handleVars, lambdaVars, reingestVars,
              remergeVars, discoverVars, rankVars>>
notRank == <<ingestVars, mergeVars, citeVars, rerankVars, chunkVars,
             sectionsVars, handleVars, lambdaVars, reingestVars, remergeVars,
             discoverVars, dedupVars>>
notHandleNorIngest == <<mergeVars, citeVars, rerankVars, chunkVars,
                        sectionsVars, lambdaVars, reingestVars, remergeVars,
                        discoverVars, dedupVars, rankVars>>
notIngestNorReingest == <<mergeVars, citeVars, rerankVars, chunkVars,
                          sectionsVars, handleVars, lambdaVars, remergeVars,
                          discoverVars, dedupVars, rankVars>>

-----------------------------------------------------------------------------
(* Bounds of the model *)

MaxPapers == 2
MaxClock == 6
MaxRaws == 2
MaxMatches == 3
MaxRerank == 3
MaxTopK == 3
MaxWords == 12
MaxChunkSize == 5
MaxOverlap == 2
MaxMinWords == 3
MaxSectionWords == 4
MaxCandidates == 3

(* Program constants *)

MAX_CONTEXT_CHARS == 16000
MAX_CHUNKS_PER_PAPER == 16

-----------------------------------------------------------------------------
(* Text utilities *)

Max(a, b) == IF a >= b THEN a ELSE b
Min(a, b) == IF a <= b THEN a ELSE b

IsSpace(c) == c \in {" ", "\n", "\t"}

UpperLetters ==
    <<"A", "B", "C", "D", "E", "F", "G", "H", "I", "J", "K", "L", "M",
      "N", "O", "P", "Q", "R", "S", "T", "U", "V", "W", "X", "Y", "Z">>
LowerLetters ==
    <<"a", "b", "c", "d", "e", "f", "g", "h", "i", "j", "k", "l", "m",
      "n", "o", "p", "q", "r", "s", "t", "u", "v", "w", "x", "y", "z">>

\* str.lower on one character
LowerChar(c) ==
    IF \E i \in 1..26 : UpperLetters[i] = c
    THEN LowerLetters[CHOOSE i \in 1..26 : UpperLetters[i] = c]
    ELSE c

Lower(s) == [i \in 1..Len(s) |-> LowerChar(s[i])]

RECURSIVE LStrip(_)
LStrip(s) == IF s # <<>> /\ IsSpace(Head(s)) THEN LStrip(Tail(s)) ELSE s

RECURSIVE RStrip(_)
RStrip(s) ==
    IF s # <<>> /\ IsSpace(s[Len(s)]) THEN RStrip(SubSeq(s, 1, Len(s) - 1)) ELSE s

\* re.sub(r"\s+", " ", s)
RECURSIVE CollapseWs(_)
CollapseWs(s) ==
    IF s = <<>> THEN <<>>
    ELSE IF IsSpace(Head(s)) THEN <<" ">> \o CollapseWs(LStrip(Tail(s)))
    ELSE <<Head(s)>> \o CollapseWs(Tail(s))

clean_text(text) ==
    IF text = <<>> THEN <<>>
    ELSE SelectSeq(RStrip(LStrip(CollapseWs(text))), LAMBDA c : c # "NUL")

\* " ".join(parts), with any separator
RECURSIVE Join(_, _)
Join(parts, sep) ==
    IF parts = <<>> THEN <<>>
    ELSE IF Len(parts) = 1 THEN parts[1]
    ELSE parts[1] \o sep \o Join(Tail(parts), sep)

\* str.split(" ") of a non-empty text
RECURSIVE SplitSpace(_)
SplitSpace(s) ==
    IF \A i \in 1..Len(s) : s[i] # " " THEN <<s>>
    ELSE LET k == CHOOSE i \in 1..Len(s) : s[i] = " " /\ \A j \in 1..(i - 1) : s[j] # " "
         IN  <<SubSeq(s, 1, k - 1)>> \o SplitSpace(SubSeq(s, k + 1, Len(s)))

Digit(d) == <<"0", "1", "2", "3", "4", "5", "6", "7", "8", "9">>[d + 1]

\* str(n) of a non-negative integer
RECURSIVE DecStr(_)
DecStr(n) == IF n < 10 THEN <<Digit(n)>> ELSE DecStr(n \div 10) \o <<Digit(n % 10)>>

\* as_int(value, 0) of a citationCount value
as_int(value) == IF value.tag = "int" THEN value.val ELSE 0

Int_(n) == [tag |-> "int", val |-> n]
NonNumeric == [tag |-> "text", val |-> 0]

SeqSum(s) ==
    LET RECURSIVE Go(_)
        Go(k) == IF k = 0 THEN 0 ELSE s[k] + Go(k - 1)
    IN  Go(Len(s))

-----------------------------------------------------------------------------
(* Paper normalizer *)

DoiPrefix == <<"https://doi.org/">>

\* int(raw.get("citationCount", 0) or 0) raises on a non-numeric value
normalize_raises(raw) == raw.citationCount.tag # "int"

\* clean_text(str(raw.get("source") or "")) or "custom"
source_or_empty(src) == src
source_or_default(src) == IF src # <<>> THEN src ELSE <<"c", "u", "s", "t", "o", "m">>

\* In a raw record <<>> stands for a missing, None or empty field, year 0 for
\* no year, and allowPdfExtract TRUE for a missing flag (as_bool's default).
normalize_paper(raw) ==
    LET title == clean_text(raw.title)
        doi0 == Lower(clean_text(raw.doi))
        doi == IF Len(doi0) >= 1 /\ doi0[1] = DoiPrefix[1] THEN Tail(doi0) ELSE doi0
        pid0 == clean_text(raw.paperId)
        \* "paper_" + sha1(title|doi|year)[:16], the digest kept as its seed
        pid == IF pid0 # <<>> THEN pid0
               ELSE <<"paper_">> \o title \o <<"|">> \o doi \o <<"|">>
                    \o (IF raw.year = 0 THEN <<>> ELSE DecStr(raw.year))
        src == clean_text(raw.source)
    IN  [paperId |-> pid,
         title |-> title,
         abstract |-> clean_text(raw.abstract),
         fullText |-> clean_text(raw.fullText),
         authors |-> SelectSeq([i \in 1..Len(raw.authors) |-> clean_text(raw.authors[i])],
                               LAMBDA a : a # <<>>),
         year |-> raw.year,
         citationCount |-> Int_(raw.citationCount.val),
         publicationDate |-> clean_text(raw.publicationDate),
         venue |-> clean_text(raw.venue),
         url |-> clean_text(raw.url),
         pdfUrl |-> clean_text(raw.pdfUrl),
         doi |-> doi,
         source |-> source_or_default(src),
         allowPdfExtract |-> raw.allowPdfExtract]

\* The fixed closing sentence of the fallback text, one atom per word.
FallbackTail ==
    Join(<< <<"This">>, <<"record">>, <<"has">>, <<"limited">>, <<"full">>, <<"text,">>,
            <<"so">>, <<"retrieval">>, <<"should">>, <<"be">>, <<"treated">>, <<"as">>,
            <<"metadata-level">>, <<"evidence.">> >>, <<" ">>)

build_metadata_fallback_text(p) ==
    LET title == clean_text(p.title)
        authors == SelectSeq(p.authors, LAMBDA a : clean_text(a) # <<>>)
        venue == clean_text(p.venue)
        source == clean_text(p.source)
        doi == clean_text(p.doi)
        url == clean_text(p.url)
        parts ==
            (IF title # <<>> THEN << <<"Title:", " ">> \o title \o <<".">> >> ELSE <<>>)
            \o (IF authors # <<>>
                THEN << <<"Authors:", " ">>
                        \o Join(SubSeq(authors, 1, Min(6, Len(authors))), <<",", " ">>)
                        \o <<".">> >>
                ELSE <<>>)
            \o (IF p.year > 0 THEN << <<"Year:", " ">> \o DecStr(p.year) \o <<".">> >> ELSE <<>>)
            \o (IF venue # <<>> THEN << <<"Venue:", " ">> \o venue \o <<".">> >> ELSE <<>>)
            \o (IF source # <<>> THEN << <<"Source:", " ">> \o source \o <<".">> >> ELSE <<>>)
            \o (IF doi # <<>> THEN << <<"DOI:", " ">> \o doi \o <<".">> >> ELSE <<>>)
            \o (IF url # <<>> THEN << <<"URL:", " ">> \o url \o <<".">> >> ELSE <<>>)
    IN  clean_text(Join(IF parts # <<>> THEN parts \o <<FallbackTail>> ELSE parts, <<" ">>))

-----------------------------------------------------------------------------
(* Chunker *)

\* The loop of chunk_text over the word list: the windows it emits, as
\* <<start, end>> offsets (0-based, end exclusive and cut to the word count).
RECURSIVE chunk_windows(_, _, _, _, _)
chunk_windows(W, start, size, step, min_words) ==
    IF start >= W THEN <<>>
    ELSE LET end == start + size
             n == Min(end, W) - start
         IN  IF n < min_words THEN <<>>
             ELSE IF end >= W THEN << <<start, W>> >>
             ELSE << <<start, end>> >> \o chunk_windows(W, start + step, size, step, min_words)

chunk_text(text, chunk_size_words, overlap_words, min_words) ==
    LET clean == clean_text(text)
        words == SplitSpace(clean)
        wins == chunk_windows(Len(words), 0, chunk_size_words,
                              Max(1, chunk_size_words - overlap_words), min_words)
    IN  IF clean = <<>> THEN <<>>
        ELSE IF Len(words) <= chunk_size_words THEN <<clean>>
        ELSE [i \in 1..Len(wins) |->
                 Join(SubSeq(words, wins[i][1] + 1, wins[i][2]), <<" ">>)]

\* chunk_text_with_sections for a text in which no section heading occurs:
\* split_sections returns the single section "body".
chunk_text_with_sections(text, p) ==
    LET chunks == chunk_text(text, p.size, p.overlap, p.min)
    IN  [i \in 1..Len(chunks) |-> [text |-> chunks[i], section |-> "body", sectionIndex |-> 0]]

-----------------------------------------------------------------------------
(* Inputs of the ingestion model *)

BlankRaw ==
    [paperId |-> <<>>, title |-> <<>>, abstract |-> <<>>, fullText |-> <<>>,
     authors |-> <<>>, year |-> 0, citationCount |-> Int_(0),
     publicationDate |-> <<>>, venue |-> <<>>,
     url |-> <<>>, pdfUrl |-> <<>>, doi |-> <<>>, source |-> <<>>,
     allowPdfExtract |-> TRUE]

\* Raw records as ingest_papers may be handed them: with text, with a PDF
\* link, with bibliographic metadata only, with a citationCount that is no
\* number, and with no field but the paperId.
IngestShapes ==
    { [BlankRaw EXCEPT !.title = <<"a", "b">>, !.abstract = <<"c", " ", "d", " ", " ", "e">>,
                       !.citationCount = Int_(3)],
      [BlankRaw EXCEPT !.title = <<"a", "b">>, !.pdfUrl = <<"u">>],
      [BlankRaw EXCEPT !.authors = << <<"A", " ", "B">> >>, !.year = 2020,
                       !.venue = <<"v">>, !.doi = <<"1", "0">>],
      [BlankRaw EXCEPT !.title = <<"a", "b">>, !.citationCount = NonNumeric],
      BlankRaw }

PaperIdAt(i) == <<"p">> \o DecStr(i)

\* Lists of 0..MaxPapers raw records with pairwise distinct paperIds.
IngestInputs ==
    UNION { { [i \in 1..n |-> [f[i] EXCEPT !.paperId = PaperIdAt(i)]] :
                f \in [1..n -> IngestShapes] } : n \in 0..MaxPapers }

\* chunk_size_words, overlap_words, min_chunk_words
ChunkParams == { [size |-> 1, overlap |-> 0, min |-> 1],
                 [size |-> 2, overlap |-> 0, min |-> 3] }

\* What extract_pdf_text may return: a text, or nothing.
PdfTexts == { <<"x", " ", "y">>, <<>> }

REASON_ENTRY == "Deferred due to ingest time budget (avoid API Gateway timeout). Retry with lower limit or no PDF extraction."
REASON_PDF == "Skipped PDF extraction due to remaining time budget."
REASON_NO_TEXT == "No abstract/fullText/PDF text available"
REASON_SHORT == "Text too short after chunking"
REASON_EMBED == "Deferred due to remaining ingest time budget before embedding/upsert."

-----------------------------------------------------------------------------
(* ingest_papers *)

IngestIdle ==
    /\ papers = <<>> /\ max_seconds = 0 /\ extract_pdf = FALSE
    /\ chunk_params = [size |-> 1, overlap |-> 0, min |-> 1]
    /\ pc = "idle" /\ idx = 1 /\ clock = 0 /\ paper = BlankRaw
    /\ text_parts = <<>> /\ chunk_rows = <<>>
    /\ ingested_papers = 0 /\ ingested_chunks = 0
    /\ skipped = <<>> /\ failed = <<>> /\ timed_out = FALSE
    /\ budget_hit_at = {} /\ mismatch_at = {} /\ store = {}

IngestInit ==
    /\ papers \in IngestInputs
    /\ max_seconds \in {0, MaxClock}
    /\ extract_pdf \in BOOLEAN
    /\ chunk_params \in ChunkParams
    /\ pc = "loop" /\ idx = 1 /\ clock = 0 /\ paper = BlankRaw
    /\ text_parts = <<>> /\ chunk_rows = <<>>
    /\ ingested_papers = 0 /\ ingested_chunks = 0
    /\ skipped = <<>> /\ failed = <<>> /\ timed_out = FALSE
    /\ budget_hit_at = {} /\ mismatch_at = {} /\ store = {}

\* Seconds an external call may take.  Without a budget the clock is never
\* read, so it is left alone.
CallSeconds == IF max_seconds = 0 THEN {0} ELSE 0..MaxClock

Elapse(d) == clock' = Min(clock + d, MaxClock)

SkipEntry(p, reason) == [paperId |-> p.paperId, title |-> p.title, reason |-> reason]
FailEntry(p, error) == [paperId |-> p.paperId, title |-> p.title, error |-> error]

\* The budget tests of the loop: at loop entry, before the PDF fetch and
\* before embedding.
EntryBudgetSpentOnce == max_seconds # 0 /\ clock >= max_seconds /\ budget_hit_at = {}
EntryBudgetSpent == max_seconds # 0 /\ clock >= max_seconds
PdfBudgetSpent == max_seconds # 0 /\ clock >= Max(1, max_seconds - 4)
EmbedBudgetSpent == max_seconds # 0 /\ clock >= Max(1, max_seconds - 3)

\* `continue`, or the end of the loop body
NextPaper == pc' = "loop" /\ idx' = idx + 1

\* Loop entry with the budget spent: the paper is deferred.  timed_out is
\* set before the record is normalized.
DeferAtEntry ==
    /\ pc = "loop" /\ idx <= Len(papers)
    /\ EntryBudgetSpent
    /\ timed_out' = TRUE
    /\ budget_hit_at' = budget_hit_at \cup {idx}
    /\ IF normalize_raises(papers[idx])
       THEN pc' = "raised" /\ UNCHANGED <<idx, skipped>>
       ELSE /\ skipped' = Append(skipped, SkipEntry(normalize_paper(papers[idx]), REASON_ENTRY))
            /\ NextPaper
    /\ UNCHANGED <<notIngest, mismatch_at, papers, max_seconds, extract_pdf, chunk_params, clock, paper, text_parts,
                   chunk_rows, ingested_papers, ingested_chunks, failed, store>>

\* Loop entry within the budget: normalize_paper, outside the try block, and
\* the first three text parts.
BeginPaper ==
    /\ pc = "loop" /\ idx <= Len(papers)
    /\ ~EntryBudgetSpent
    /\ IF normalize_raises(papers[idx])
       THEN pc' = "raised" /\ UNCHANGED <<paper, text_parts>>
       ELSE LET p == normalize_paper(papers[idx])
            IN  /\ paper' = p
                /\ text_parts' = SelectSeq(<<p.title, p.fullText, p.abstract>>,
                                           LAMBDA x : x # <<>>)
                /\ pc' = "pdf"
    /\ UNCHANGED <<notIngest, mismatch_at, papers, max_seconds, extract_pdf, chunk_params, idx, clock, chunk_rows,
                   ingested_papers, ingested_chunks, skipped, failed, timed_out,
                   budget_hit_at, store>>

should_extract_pdf == extract_pdf /\ paper.allowPdfExtract /\ paper.pdfUrl # <<>>

NoPdf ==
    /\ pc = "pdf" /\ ~should_extract_pdf
    /\ pc' = "chunk"
    /\ UNCHANGED <<notIngest, mismatch_at, papers, max_seconds, extract_pdf, chunk_params, idx, clock, paper,
                   text_parts, chunk_rows, ingested_papers, ingested_chunks, skipped,
                   failed, timed_out, budget_hit_at, store>>

\* The PDF checkpoint with the budget nearly spent: an entry is appended to
\* skipped and the paper goes on without its PDF text.
SkipPdf ==
    /\ pc = "pdf" /\ should_extract_pdf /\ PdfBudgetSpent
    /\ skipped' = Append(skipped, SkipEntry(paper, REASON_PDF))
    /\ pc' = "chunk"
    /\ UNCHANGED <<notIngest, mismatch_at, papers, max_seconds, extract_pdf, chunk_params, idx, clock, paper,
                   text_parts, chunk_rows, ingested_papers, ingested_chunks, failed,
                   timed_out, budget_hit_at, store>>

\* extract_pdf_text: a blocking call; an exception in it is caught and leaves
\* text_parts as it is, like an empty result.
ExtractPdf ==
    /\ pc = "pdf" /\ should_extract_pdf /\ ~PdfBudgetSpent
    /\ \E pdf_text \in PdfTexts, d \in CallSeconds :
          /\ Elapse(d)
          /\ text_parts' = IF pdf_text # <<>> THEN Append(text_parts, pdf_text) ELSE text_parts
    /\ pc' = "chunk"
    /\ UNCHANGED <<notIngest, mismatch_at, papers, max_seconds, extract_pdf, chunk_params, idx, paper, chunk_rows,
                   ingested_papers, ingested_chunks, skipped, failed, timed_out,
                   budget_hit_at, store>>

\* merged_text, with the metadata fallback when it is empty
merged_text ==
    LET joined == clean_text(Join(text_parts, <<"\n", "\n">>))
    IN  IF joined # <<>> THEN joined ELSE build_metadata_fallback_text(paper)

Truncate(rows) == IF Len(rows) > MAX_CHUNKS_PER_PAPER THEN SubSeq(rows, 1, MAX_CHUNKS_PER_PAPER) ELSE rows

\* Text assembly, chunking, truncation and the checkpoint before embedding.
ChunkStep ==
    /\ pc = "chunk"
    /\ LET rows == chunk_text_with_sections(merged_text, chunk_params)
       IN  IF merged_text = <<>>
           THEN /\ skipped' = Append(skipped, SkipEntry(paper, REASON_NO_TEXT))
                /\ NextPaper /\ UNCHANGED <<chunk_rows, timed_out>>
           ELSE IF rows = <<>>
           THEN /\ skipped' = Append(skipped, SkipEntry(paper, REASON_SHORT))
                /\ NextPaper /\ UNCHANGED <<chunk_rows, timed_out>>
           ELSE IF EmbedBudgetSpent
           THEN /\ timed_out' = TRUE
                /\ skipped' = Append(skipped, SkipEntry(paper, REASON_EMBED))
                /\ NextPaper /\ UNCHANGED chunk_rows
           ELSE /\ chunk_rows' = Truncate(rows)
                /\ pc' = "embed"
                /\ UNCHANGED <<idx, skipped, timed_out>>
    /\ UNCHANGED <<notIngest, mismatch_at, papers, max_seconds, extract_pdf, chunk_params, clock, paper, text_parts,
                   ingested_papers, ingested_chunks, failed, budget_hit_at, store>>

\* len(vectors) != len(chunk_rows) raises; outcome "ok" stands for one
\* vector per chunk, "mismatch" for another number of vectors
count_unchecked(outcome) == TRUE
count_matches(outcome) == outcome = "ok"

\* openai_embed_texts: a blocking call that returns one vector per chunk,
\* returns another number of vectors, or raises.
EmbedStep ==
    /\ pc = "embed"
    /\ \E outcome \in {"ok", "mismatch", "error"}, d \in CallSeconds :
          /\ Elapse(d)
          /\ mismatch_at' = IF outcome = "mismatch" THEN mismatch_at \cup {idx} ELSE mismatch_at
          /\ IF outcome = "error"
             THEN /\ failed' = Append(failed, FailEntry(paper, "OpenAI embeddings failed"))
                  /\ NextPaper
             ELSE IF ~count_matches(outcome)
             THEN /\ failed' = Append(failed, FailEntry(paper, "Embedding count mismatch"))
                  /\ NextPaper
             ELSE pc' = "upsert" /\ UNCHANGED <<idx, failed>>
    /\ UNCHANGED <<notIngest, papers, max_seconds, extract_pdf, chunk_params, paper, text_parts,
                   chunk_rows, ingested_papers, ingested_chunks, skipped, timed_out,
                   budget_hit_at, store>>

vector_id_without_paper(p, i) == <<"", "::chunk::", i>>
vector_id(p, i) == <<p.paperId, "::chunk::", i>>

\* pinecone_upsert of the paper's rows (one batch: at most 16 rows), then the
\* counters.
UpsertStep ==
    /\ pc = "upsert"
    /\ \E ok \in BOOLEAN, d \in CallSeconds :
          /\ Elapse(d)
          /\ IF ok
             THEN /\ store' = store \cup { vector_id(paper, i - 1) : i \in 1..Len(chunk_rows) }
                  /\ ingested_papers' = ingested_papers + 1
                  /\ ingested_chunks' = ingested_chunks + Len(chunk_rows)
                  /\ UNCHANGED failed
             ELSE /\ failed' = Append(failed, FailEntry(paper, "Pinecone upsert failed"))
                  /\ UNCHANGED <<store, ingested_papers, ingested_chunks>>
    /\ NextPaper
    /\ UNCHANGED <<notIngest, mismatch_at, papers, max_seconds, extract_pdf, chunk_params, paper, text_parts,
                   chunk_rows, skipped, timed_out, budget_hit_at>>

\* The loop is over: the result is returned.
ReturnStats ==
    /\ pc = "loop" /\ idx > Len(papers)
    /\ pc' = "done"
    /\ UNCHANGED <<notIngest, mismatch_at, papers, max_seconds, extract_pdf, chunk_params, idx, clock, paper,
                   text_parts, chunk_rows, ingested_papers, ingested_chunks, skipped,
                   failed, timed_out, budget_hit_at, store>>

Next ==
    \/ DeferAtEntry
    \/ BeginPaper
    \/ NoPdf
    \/ SkipPdf
    \/ ExtractPdf
    \/ ChunkStep
    \/ EmbedStep
    \/ UpsertStep
    \/ ReturnStats

-----------------------------------------------------------------------------
(* merge_papers *)

LowerAlnumSpace ==
    {"a", "b", "c", "d", "e", "f", "g", "h", "i", "j", "k", "l", "m", "n", "o", "p", "q",
     "r", "s", "t", "u", "v", "w", "x", "y", "z",
     "0", "1", "2", "3", "4", "5", "6", "7", "8", "9", " "}

key_for(p) ==
    LET doi == Lower(clean_text(p.doi))
        title0 == SelectSeq(Lower(clean_text(p.title)), LAMBDA c : c \in LowerAlnumSpace)
        \* " ".join(title.split())
        title == RStrip(LStrip(CollapseWs(title0)))
    IN  IF doi # <<>> THEN <<"doi:">> \o doi
        ELSE IF title # <<>> THEN <<"title:">> \o title
        ELSE <<"id:">> \o p.paperId

score(p) ==
    <<IF p.abstract # <<>> THEN 1 ELSE 0,
      IF p.pdfUrl # <<>> THEN 1 ELSE 0,
      p.citationCount.val>>

\* a > b for tuples of three integers
TupleGt(a, b) ==
    \/ a[1] > b[1]
    \/ a[1] = b[1] /\ a[2] > b[2]
    \/ a[1] = b[1] /\ a[2] = b[2] /\ a[3] > b[3]

\* {**existing, **p}
DictSpread(existing, p) ==
    [f \in (DOMAIN existing) \cup (DOMAIN p) |-> IF f \in DOMAIN p THEN p[f] ELSE existing[f]]

InfoFields == <<"abstract", "pdfUrl", "doi", "url", "venue">>

\* The branch taken when the new record scores higher.
new_wins(existing, p) ==
    LET merged == DictSpread(existing, p)
    IN  IF existing.authors # <<>> /\ p.authors # <<>>
        THEN [merged EXCEPT !.authors = IF Len(existing.authors) >= Len(p.authors)
                                        THEN existing.authors ELSE p.authors]
        ELSE merged

\* The branch taken otherwise: gaps of the existing record are back-filled.
existing_wins(existing, p) ==
    LET filled == [f \in DOMAIN existing |->
                      IF f \in {InfoFields[i] : i \in 1..Len(InfoFields)}
                         /\ existing[f] = <<>> /\ p[f] # <<>>
                      THEN p[f] ELSE existing[f]]
    IN  IF Len(filled.authors) < Len(p.authors)
        THEN [filled EXCEPT !.authors = p.authors]
        ELSE filled

HasKey(sel, k) == \E i \in 1..Len(sel) : sel[i].key = k
Lookup(sel, k) == sel[CHOOSE i \in 1..Len(sel) : sel[i].key = k].paper
Keys(sel) == { sel[i].key : i \in 1..Len(sel) }

\* One iteration of the loop of merge_papers.  The dict is a sequence of
\* key/paper pairs in insertion order.
merge_one(sel, raw) ==
    LET p == normalize_paper(raw)
        k == key_for(p)
    IN  IF ~HasKey(sel, k) THEN Append(sel, [key |-> k, paper |-> p])
        ELSE [i \in 1..Len(sel) |->
                 IF sel[i].key # k THEN sel[i]
                 ELSE [key |-> k,
                       paper |-> IF TupleGt(score(p), score(sel[i].paper))
                                 THEN new_wins(sel[i].paper, p)
                                 ELSE existing_wins(sel[i].paper, p)]]

\* Raw records that fall under four merge keys: title:ab (two spellings),
\* doi:x (two spellings, one without paperId), and id:p5.
MergeKeyShapes ==
    { [BlankRaw EXCEPT !.paperId = <<"p", "1">>, !.title = <<"A", "b">>],
      [BlankRaw EXCEPT !.paperId = <<"p", "2">>, !.title = <<" ", "a", "b", "!">>],
      [BlankRaw EXCEPT !.paperId = <<"p", "3">>, !.title = <<"A", "b">>,
                       !.doi = DoiPrefix \o <<"X">>],
      [BlankRaw EXCEPT !.title = <<"c">>, !.doi = <<"x">>, !.year = 2020],
      [BlankRaw EXCEPT !.paperId = <<"p", "5">>] }

\* Each with at most one of: an abstract, a PDF link, a venue, a URL,
\* citations, two authors.
MergeShapes ==
    UNION { { r,
              [r EXCEPT !.abstract = <<"s">>],
              [r EXCEPT !.pdfUrl = <<"u">>],
              [r EXCEPT !.venue = <<"v">>],
              [r EXCEPT !.url = <<"w">>],
              [r EXCEPT !.citationCount = Int_(5)],
              [r EXCEPT !.authors = << <<"A">>, <<"B">> >>] } : r \in MergeKeyShapes }

Perms(n) == { f \in [1..n -> 1..n] : \A i, j \in 1..n : f[i] = f[j] => i = j }

MergeInit ==
    /\ \E n \in 0..MaxRaws : raws \in [1..n -> MergeShapes] /\ perm \in Perms(n)
    /\ mpos = 0 /\ selected = <<>> /\ selectedP = <<>>

\* One iteration, on the list and on its permutation.
MergeStep ==
    /\ mpos < Len(raws)
    /\ mpos' = mpos + 1
    /\ selected' = merge_one(selected, raws[mpos + 1])
    /\ selectedP' = merge_one(selectedP, raws[perm[mpos + 1]])
    /\ UNCHANGED <<notMerge, raws, perm>>

MergeDone == mpos = Len(raws)

-----------------------------------------------------------------------------
(* build_references and build_context *)

\* A match is [score, metadata]; of the metadata the model keeps paperId, doi,
\* title, year, section and, for chunkText, the length of clean_text(chunkText).
_paper_key(meta) ==
    LET paper_id == clean_text(meta.paperId)
        doi == Lower(clean_text(meta.doi))
        title == Lower(clean_text(meta.title))
    IN  IF paper_id # <<>> THEN <<"id:">> \o paper_id
        ELSE IF doi # <<>> THEN <<"doi:">> \o doi
        ELSE <<"title:">> \o title

\* len(references) + 1
next_citation_number_zero_based(refs) == Len(refs)
next_citation_number(refs) == Len(refs) + 1

\* paper_to_citation[key] = n
MapPut(map, key, n) ==
    [k \in (DOMAIN map) \cup {key} |-> IF k = key THEN n ELSE map[k]]

\* One iteration of the loop of build_references.
RefStep ==
    /\ cpc = "refs" /\ cpos <= Len(matches)
    /\ LET meta == matches[cpos].metadata
           key == _paper_key(meta)
           citation_number == next_citation_number(references)
       IN  IF key \in DOMAIN paper_to_citation
           THEN UNCHANGED <<references, paper_to_citation>>
           ELSE /\ paper_to_citation' = MapPut(paper_to_citation, key, citation_number)
                /\ references' = Append(references,
                                        [citationNumber |-> citation_number,
                                         paperId |-> meta.paperId,
                                         title |-> meta.title,
                                         year |-> meta.year,
                                         doi |-> meta.doi])
    /\ cpos' = cpos + 1
    /\ UNCHANGED <<notCite, matches, cpc, used_chunks, context_parts, total_chars, halted,
                   context_len>>

\* build_references returns and build_context is called with its map.
StartContext ==
    /\ cpc = "refs" /\ cpos > Len(matches)
    /\ cpc' = "ctx" /\ cpos' = 1
    /\ UNCHANGED <<notCite, matches, references, paper_to_citation, used_chunks,
                   context_parts, total_chars, halted, context_len>>

\* len(f"{x:.4f}") of a score given in tenths, |x| < 10
FixedLen(tenths) == IF tenths < 0 THEN 7 ELSE 6

\* The characters of a block that are not field values: the literal text of
\* the header line and the two line ends.
BlockLiteralChars == 72

\* len(block) for the match at 1-based position i
block_len(i, match, citation_number) ==
    LET meta == match.metadata
        tag == IF citation_number # 0 THEN 2 + Len(DecStr(citation_number)) ELSE 3
        title == IF meta.title = <<>> THEN 8 ELSE Len(clean_text(meta.title))
        year == IF meta.year = 0 THEN 4 ELSE Len(DecStr(meta.year))
        section == IF clean_text(meta.section) = <<>> THEN 4 ELSE Len(clean_text(meta.section))
    IN  BlockLiteralChars + Len(DecStr(i)) + tag + title + year + section
        + FixedLen(match.score) + FixedLen(match.score) + meta.chunkTextLen

\* paper_to_citation.get(key), 0 for None
MapGet_never_found(map, key) == 0
MapGet(map, key) == IF key \in DOMAIN map THEN map[key] ELSE 0

\* Whether the loop is left at the first block that does not fit (break).
overflow_continues == FALSE
overflow_breaks == TRUE

\* One iteration of the loop of build_context.
CtxStep ==
    /\ cpc = "ctx" /\ cpos <= Len(matches) /\ ~halted
    /\ LET match == matches[cpos]
           citation_number == MapGet(paper_to_citation, _paper_key(match.metadata))
           block == block_len(cpos, match, citation_number)
       IN  IF match.metadata.chunkTextLen = 0
           THEN UNCHANGED <<used_chunks, context_parts, total_chars, halted>>
           ELSE IF total_chars + block > MAX_CONTEXT_CHARS
           THEN /\ halted' = overflow_breaks
                /\ UNCHANGED <<used_chunks, context_parts, total_chars>>
           ELSE /\ context_parts' = Append(context_parts, block)
                /\ total_chars' = total_chars + block
                /\ used_chunks' = Append(used_chunks,
                                         [rank |-> cpos,
                                          citationNumber |-> citation_number,
                                          paperId |-> match.metadata.paperId])
                /\ UNCHANGED halted
    /\ cpos' = cpos + 1
    /\ UNCHANGED <<notCite, matches, cpc, references, paper_to_citation, context_len>>

\* "\n".join(context_parts): one more character between two blocks
joined_len(parts) == SeqSum(parts) + (IF Len(parts) > 0 THEN Len(parts) - 1 ELSE 0)

ReturnContext ==
    /\ cpc = "ctx" /\ (cpos > Len(matches) \/ halted)
    /\ context_len' = joined_len(context_parts)
    /\ cpc' = "done"
    /\ UNCHANGED <<notCite, matches, cpos, references, paper_to_citation, used_chunks,
                   context_parts, total_chars, halted>>

BlankMeta ==
    [paperId |-> <<>>, doi |-> <<>>, title |-> <<>>, year |-> 0, section |-> <<>>,
     chunkTextLen |-> 0]

\* Metadata of two papers that share a DOI under different paperIds, of a
\* paper known by its DOI only, and of a chunk with no identifying field.
CiteMetas ==
    { [BlankMeta EXCEPT !.paperId = <<"W", "1">>, !.doi = <<"d">>, !.title = <<"T">>],
      [BlankMeta EXCEPT !.paperId = <<"W", "2">>, !.doi = <<"d">>, !.title = <<"T">>],
      [BlankMeta EXCEPT !.doi = <<"D">>, !.title = <<"T">>, !.year = 2020],
      BlankMeta }

\* Chunk lengths: no text, a short chunk, and the two lengths with which the
\* first block of an untitled and of a one-letter-title chunk fills half of
\* the budget.
HalfFit(titleLen) == (MAX_CONTEXT_CHARS \div 2) - (BlockLiteralChars + 1 + 3 + titleLen + 4 + 4 + 12)
ChunkLens == {0, 60, HalfFit(8), HalfFit(1)}

CiteMatches ==
    { [score |-> 9, metadata |-> [m EXCEPT !.chunkTextLen = n]] :
        m \in CiteMetas, n \in ChunkLens }

CiteInit ==
    /\ \E n \in 0..MaxMatches : matches \in [1..n -> CiteMatches]
    /\ cpc = "refs" /\ cpos = 1 /\ references = <<>>
    /\ paper_to_citation = <<>> /\ used_chunks = <<>> /\ context_parts = <<>>
    /\ total_chars = 0 /\ halted = FALSE /\ context_len = 0

-----------------------------------------------------------------------------
(* hybrid_rerank_matches *)

\* Scores are exact fractions [n, d] in lowest terms with d > 0; a raw
\* similarity score is given in tenths.
RECURSIVE GCD(_, _)
GCD(a, b) == IF b = 0 THEN a ELSE GCD(b, a % b)
Abs(x) == IF x < 0 THEN -x ELSE x
Frac(n, d) ==
    LET g == GCD(Abs(n), d)
    IN  IF n = 0 THEN [n |-> 0, d |-> 1] ELSE [n |-> n \div g, d |-> d \div g]
FracAdd(a, b) == Frac(a.n * b.d + b.n * a.d, a.d * b.d)
FracMul(a, b) == Frac(a.n * b.n, a.d * b.d)
FracGe(a, b) == a.n * b.d >= b.n * a.d
FracGt(a, b) == a.n * b.d > b.n * a.d

AlnumLower == LowerAlnumSpace \ {" "}

\* re.findall(r"[a-z0-9]{3,}", s): the maximal runs of at least three
\* characters of [a-z0-9]; cur is the run being read
RECURSIVE AlnumRuns(_, _)
AlnumRuns(s, cur) ==
    IF s = <<>> THEN (IF Len(cur) >= 3 THEN {cur} ELSE {})
    ELSE IF Head(s) \in AlnumLower THEN AlnumRuns(Tail(s), Append(cur, Head(s)))
    ELSE (IF Len(cur) >= 3 THEN {cur} ELSE {}) \cup AlnumRuns(Tail(s), <<>>)

tokenize_for_overlap(text) == AlnumRuns(Lower(clean_text(text)), <<>>)

lexical_overlap_score(query, candidate_text) ==
    LET q_tokens == tokenize_for_overlap(query)
        c_tokens == tokenize_for_overlap(candidate_text)
    IN  IF q_tokens = {} THEN Frac(0, 1)
        ELSE IF c_tokens = {} THEN Frac(0, 1)
        ELSE Frac(Cardinality(q_tokens \cap c_tokens), Cardinality(q_tokens))

\* min(as_int(citationCount), 5000) / 5000.0
citation_boost_uncapped(meta) == Frac(as_int(meta.citationCount), 5000)
citation_boost(meta) == Frac(Min(as_int(meta.citationCount), 5000), 5000)

SeqMin(seq) == CHOOSE x \in { seq[i] : i \in 1..Len(seq) } : \A i \in 1..Len(seq) : x <= seq[i]
SeqMax(seq) == CHOOSE x \in { seq[i] : i \in 1..Len(seq) } : \A i \in 1..Len(seq) : x >= seq[i]

\* (score - min_score) / span with span = max(max_score - min_score, 1e-8):
\* when all scores are equal the quotient is 0 / 1e-8
semantic_score(match, all) ==
    LET scores == [i \in 1..Len(all) |-> all[i].score]
        lo == SeqMin(scores)
        hi == SeqMax(scores)
    IN  IF hi = lo THEN Frac(0, 1) ELSE Frac(match.score - lo, hi - lo)

final_score(q, match, all) ==
    FracAdd(FracAdd(FracMul(Frac(70, 100), semantic_score(match, all)),
                    FracMul(Frac(25, 100), lexical_overlap_score(q, match.metadata.chunkText))),
            FracMul(Frac(5, 100), citation_boost(match.metadata)))

\* One iteration of the scoring loop: the next match is enriched and
\* appended to ranked.
ScoreStep ==
    /\ rpc = "score" /\ Len(ranked) < Len(rmatches)
    /\ LET match == rmatches[Len(ranked) + 1]
           enriched == [id |-> match.id, score |-> match.score, metadata |-> match.metadata,
                        hybridScore |-> final_score(question, match, rmatches)]
       IN  ranked' = Append(ranked, enriched)
    /\ UNCHANGED <<notRerank, question, rmatches, top_k, rpc, reranked>>

\* list.sort(key=final_score, reverse=True): a stable sort, so a row is
\* placed after every row whose score is at least its own
insert_before_ties(sorted, x) ==
    LET k == Cardinality({ i \in 1..Len(sorted) : FracGt(sorted[i].hybridScore, x.hybridScore) })
    IN  SubSeq(sorted, 1, k) \o <<x>> \o SubSeq(sorted, k + 1, Len(sorted))
insert_desc(sorted, x) ==
    LET k == Cardinality({ i \in 1..Len(sorted) : FracGe(sorted[i].hybridScore, x.hybridScore) })
    IN  SubSeq(sorted, 1, k) \o <<x>> \o SubSeq(sorted, k + 1, Len(sorted))

RECURSIVE sort_desc(_)
sort_desc(rows) ==
    IF rows = <<>> THEN <<>>
    ELSE insert_desc(sort_desc(SubSeq(rows, 1, Len(rows) - 1)), rows[Len(rows)])

\* ranked.sort(...) and the return of ranked[:top_k]
SortAndReturn ==
    /\ rpc = "score" /\ Len(ranked) = Len(rmatches)
    /\ reranked' = SubSeq(sort_desc(ranked), 1, Min(top_k, Len(ranked)))
    /\ rpc' = "done"
    /\ UNCHANGED <<notRerank, question, rmatches, top_k, ranked>>

\* Questions with the tokens {gene, rna} and with no token of three letters.
Questions == { <<"G", "e", "n", "e", " ", "R", "N", "A", "?">>, <<"o", "f">> }

RerankShapes ==
    { [score |-> 9, metadata |-> [chunkText |-> <<"g", "e", "n", "e", " ", "o", "f">>,
                                   citationCount |-> Int_(0)]],
      [score |-> 1, metadata |-> [chunkText |-> <<"g", "e", "n", "e", " ", "o", "f">>,
                                   citationCount |-> Int_(0)]],
      [score |-> 5, metadata |-> [chunkText |-> <<"R", "N", "A", "-", "g", "e", "n", "e">>,
                                   citationCount |-> Int_(2500)]],
      [score |-> 5, metadata |-> [chunkText |-> <<>>, citationCount |-> Int_(9000)]],
      [score |-> 1, metadata |-> [chunkText |-> <<"r", "n", "a">>,
                                   citationCount |-> NonNumeric]],
      [score |-> 9, metadata |-> [chunkText |-> <<>>, citationCount |-> Int_(0)]] }

MatchIdAt(i) == <<"m">> \o DecStr(i)

RerankInit ==
    /\ question \in Questions
    /\ \E n \in 0..MaxRerank :
          rmatches \in { [i \in 1..n |-> [id |-> MatchIdAt(i), score |-> f[i].score,
                                          metadata |-> f[i].metadata]] :
                           f \in [1..n -> RerankShapes] }
    /\ top_k \in 1..MaxTopK
    /\ rpc = "score" /\ ranked = <<>> /\ reranked = <<>>

-----------------------------------------------------------------------------
(* Inputs of the chunk_text model *)

\* A text of n pairwise different one-letter words, single-spaced, and the
\* same text with irregular white space around and between the words.
WordsText(n) == Join([i \in 1..n |-> <<LowerLetters[i]>>], <<" ">>)
PaddedText(n) == <<" ", "\n">> \o Join([i \in 1..n |-> <<LowerLetters[i]>>], <<" ", "\t">>) \o <<" ">>

ChunkIdle ==
    /\ ctext = <<>> /\ cparams = [size |-> 1, overlap |-> 0, min |-> 1]
    /\ cdone = TRUE /\ chunk_list = <<>>

ChunkInit ==
    /\ \E n \in 0..MaxWords : ctext \in {WordsText(n), PaddedText(n)}
    /\ cparams \in [size : 1..MaxChunkSize, overlap : 0..MaxOverlap, min : 1..MaxMinWords]
    /\ cdone = FALSE /\ chunk_list = <<>>

\* The call chunk_text(text, chunk_size_words, overlap_words, min_words)
ChunkCall ==
    /\ ~cdone
    /\ chunk_list' = chunk_text(ctext, cparams.size, cparams.overlap, cparams.min)
    /\ cdone' = TRUE
    /\ UNCHANGED <<notChunk, ctext, cparams>>

-----------------------------------------------------------------------------
(* split_sections *)

\* The heading patterns in list order: \b<lit>\b, or \b<lit><opt>?\b where
\* the pattern ends in an optional letter, all matched ignoring case.
heading_patterns ==
    <<
       [lit |-> <<"a", "b", "s", "t", "r", "a", "c", "t">>,
        opt |-> <<>>, label |-> "abstract"],
       [lit |-> <<"i", "n", "t", "r", "o", "d", "u", "c", "t", "i", "o", "n">>,
        opt |-> <<>>, label |-> "introduction"],
       [lit |-> <<"b", "a", "c", "k", "g", "r", "o", "u", "n", "d">>,
        opt |-> <<>>, label |-> "background"],
       [lit |-> <<"r", "e", "l", "a", "t", "e", "d", " ", "w", "o", "r", "k">>,
        opt |-> <<>>, label |-> "related_work"],
       [lit |-> <<"m", "e", "t", "h", "o", "d">>,
        opt |-> <<"s">>, label |-> "methods"],
       [lit |-> <<"m", "a", "t", "e", "r", "i", "a", "l", "s", " ", "a", "n", "d", " ", "m", "e", "t", "h", "o", "d", "s">>,
        opt |-> <<>>, label |-> "methods"],
       [lit |-> <<"e", "x", "p", "e", "r", "i", "m", "e", "n", "t", "a", "l", " ", "s", "e", "t", "u", "p">>,
        opt |-> <<>>, label |-> "methods"],
       [lit |-> <<"d", "a", "t", "a", "s", "e", "t">>,
        opt |-> <<"s">>, label |-> "dataset"],
       [lit |-> <<"r", "e", "s", "u", "l", "t">>,
        opt |-> <<"s">>, label |-> "results"],
       [lit |-> <<"a", "n", "a", "l", "y", "s", "i", "s">>,
        opt |-> <<>>, label |-> "analysis"],
       [lit |-> <<"d", "i", "s", "c", "u", "s", "s", "i", "o", "n">>,
        opt |-> <<>>, label |-> "discussion"],
       [lit |-> <<"l", "i", "m", "i", "t", "a", "t", "i", "o", "n">>,
        opt |-> <<"s">>, label |-> "limitations"],
       [lit |-> <<"f", "u", "t", "u", "r", "e", " ", "w", "o", "r", "k">>,
        opt |-> <<>>, label |-> "future_work"],
       [lit |-> <<"c", "o", "n", "c", "l", "u", "s", "i", "o", "n">>,
        opt |-> <<"s">>, label |-> "conclusion"]
    >>

\* \w of the regular expressions
IsWordChar(c) ==
    \/ \E i \in 1..26 : c = LowerLetters[i] \/ c = UpperLetters[i]
    \/ c \in {"0", "1", "2", "3", "4", "5", "6", "7", "8", "9", "_"}

\* \b between the characters at 0-based offsets pos - 1 and pos
WordBoundary(s, pos) ==
    LET before == pos >= 1 /\ IsWordChar(s[pos])
        after == pos < Len(s) /\ IsWordChar(s[pos + 1])
    IN  before # after

LiteralAt(s, pos, lit) ==
    /\ pos + Len(lit) <= Len(s)
    /\ \A k \in 1..Len(lit) : LowerChar(s[pos + k]) = lit[k]

\* a match of the pattern starts at the 0-based offset pos
PatternAt(s, pos, pat) ==
    /\ WordBoundary(s, pos)
    /\ \/ LiteralAt(s, pos, pat.lit \o pat.opt)
          /\ WordBoundary(s, pos + Len(pat.lit) + Len(pat.opt))
       \/ LiteralAt(s, pos, pat.lit) /\ WordBoundary(s, pos + Len(pat.lit))

\* markers after sorting by position: the body marker at 0, then for every
\* later offset the labels of the patterns matching there, in list order
later_markers(clean) ==
    LET P == Len(heading_patterns)
        cand == [n \in 1..((Len(clean) - 1) * P) |->
                    [pos |-> 1 + ((n - 1) \div P), k |-> 1 + ((n - 1) % P)]]
        hits == SelectSeq(cand, LAMBDA c : PatternAt(clean, c.pos, heading_patterns[c.k]))
    IN  [i \in 1..Len(hits) |-> [pos |-> hits[i].pos, label |-> heading_patterns[hits[i].k].label]]
sorted_markers(clean) == << [pos |-> 0, label |-> "body"] >> \o later_markers(clean)

\* the first marker of every position
dedup_markers(markers) ==
    SelectSeq([i \in 1..Len(markers) |->
                  [pos |-> markers[i].pos, label |-> markers[i].label,
                   first |-> \A j \in 1..(i - 1) : markers[j].pos # markers[i].pos]],
              LAMBDA m : m.first)

split_sections(text) ==
    LET clean == clean_text(text)
        dedup == dedup_markers(sorted_markers(clean))
        segment(i) ==
            LET start == dedup[i].pos
                end == IF i + 1 <= Len(dedup) THEN dedup[i + 1].pos ELSE Len(clean)
            IN  clean_text(SubSeq(clean, start + 1, end))
        rows == [i \in 1..Len(dedup) |-> [section |-> dedup[i].label, text |-> segment(i)]]
        sections == SelectSeq(rows, LAMBDA r : r.text # <<>>)
    IN  IF clean = <<>> THEN <<>>
        ELSE IF sections = <<>> THEN << [section |-> "body", text |-> clean] >>
        ELSE sections

\* Words the input texts are made of: headings in several spellings,
\* a heading inside punctuation, and words that are no heading.
SectionWords ==
    { <<"I", "n", "t", "r", "o", "d", "u", "c", "t", "i", "o", "n">>,
      <<"R", "e", "s", "u", "l", "t", "s">>,
      <<"x", ".">>,
      <<"m", "e", "t", "h", "o", "d", "s">>,
      <<"(", "r", "e", "s", "u", "l", "t", ")">> }

RECURSIVE WordLists(_)
WordLists(n) ==
    IF n = 0 THEN { <<>> }
    ELSE WordLists(n - 1) \cup
         { Append(w, x) : w \in { v \in WordLists(n - 1) : Len(v) = n - 1 }, x \in SectionWords }

SectionsIdle == stext = <<>> /\ sdone = TRUE /\ section_list = <<>>

SectionsInit ==
    /\ stext \in { Join(w, <<" ">>) : w \in WordLists(MaxSectionWords) }
    /\ sdone = FALSE /\ section_list = <<>>

\* The call split_sections(text)
SplitCall ==
    /\ ~sdone
    /\ section_list' = split_sections(stext)
    /\ sdone' = TRUE
    /\ UNCHANGED <<notSections, stext>>

-----------------------------------------------------------------------------
(* handle_ingest *)

MAX_INGEST_CANDIDATES == 10
MAX_QUERY_PDF_PAPERS == 2

\* clamp_int of a request value: Int_(n) for a value int() accepts,
\* NonNumeric for a missing or unparsable one
clamp_int(value, default, min_value, max_value) ==
    IF value.tag = "int" THEN Max(min_value, Min(max_value, value.val)) ELSE default

\* merge_papers of a list: the values of selected, in insertion order
RECURSIVE merge_fold(_, _)
merge_fold(sel, list) ==
    IF list = <<>> THEN sel ELSE merge_fold(merge_one(sel, Head(list)), Tail(list))
merge_papers(list) ==
    LET sel == merge_fold(<<>>, list) IN [i \in 1..Len(sel) |-> sel[i].paper]

paper_ingest_priority(p) ==
    LET abstract_len == Len(clean_text(p.abstract))
        full_text_len == Len(clean_text(p.fullText))
    IN  <<IF abstract_len + full_text_len > 0 THEN 1 ELSE 0,
          IF abstract_len > 0 THEN 1 ELSE 0,
          IF clean_text(p.pdfUrl) # <<>> THEN 1 ELSE 0,
          as_int(p.citationCount),
          p.year>>

\* a >= b for tuples of five integers
RECURSIVE TupleGe5(_, _, _)
TupleGe5(a, b, k) ==
    IF k > 5 THEN TRUE
    ELSE IF a[k] # b[k] THEN a[k] > b[k]
    ELSE TupleGe5(a, b, k + 1)

\* all_candidates.sort(key=paper_ingest_priority, reverse=True), a stable sort
RECURSIVE sort_by_priority(_)
sort_by_priority(list) ==
    IF list = <<>> THEN <<>>
    ELSE LET done == sort_by_priority(SubSeq(list, 1, Len(list) - 1))
             x == list[Len(list)]
             k == Cardinality({ i \in 1..Len(done) :
                                  TupleGe5(paper_ingest_priority(done[i]),
                                           paper_ingest_priority(x), 1) })
         IN  SubSeq(done, 1, k) \o <<x>> \o SubSeq(done, k + 1, Len(done))

\* selected_count
selected_count_without_limit(n, has_query, max_candidates, limit) == Min(n, max_candidates)
selected_count(n, has_query, max_candidates, limit) ==
    IF has_query THEN Min(Min(n, max_candidates), limit) ELSE Min(n, max_candidates)

\* The loop that re-enables PDF extraction: it walks the selected
\* candidates in order, stops once the limit is reached, and marks those
\* that have a pdfUrl.  count is query_pdf_extraction_selected.
RECURSIVE enable_pdf_any(_, _, _)
enable_pdf_any(list, count, limit) ==
    IF list = <<>> \/ count >= limit THEN list
    ELSE <<[Head(list) EXCEPT !.allowPdfExtract = TRUE]>>
         \o enable_pdf_any(Tail(list), count + 1, limit)
RECURSIVE enable_pdf(_, _, _)
enable_pdf(list, count, limit) ==
    IF list = <<>> \/ count >= limit THEN list
    ELSE IF Head(list).pdfUrl # <<>>
    THEN <<[Head(list) EXCEPT !.allowPdfExtract = TRUE]>>
         \o enable_pdf(Tail(list), count + 1, limit)
    ELSE <<Head(list)>> \o enable_pdf(Tail(list), count, limit)

AllowedCount(list) == Cardinality({ i \in 1..Len(list) : list[i].allowPdfExtract })

\* Raw records of a request or of a discovery: with an abstract, with a
\* PDF link, with both (all of these under one DOI, so that two of them
\* merge), and with a citationCount that is no number.  Identifiers and
\* titles differ by position.
HandleShapes ==
    { [BlankRaw EXCEPT !.title = <<"t">>, !.abstract = <<"c", " ", "d">>,
                       !.citationCount = Int_(1)],
      [BlankRaw EXCEPT !.title = <<"t">>, !.pdfUrl = <<"u">>, !.citationCount = Int_(5),
                       !.allowPdfExtract = FALSE],
      [BlankRaw EXCEPT !.title = <<"t">>, !.abstract = <<"e">>, !.pdfUrl = <<"u">>,
                       !.doi = <<"x">>, !.citationCount = Int_(3)],
      [BlankRaw EXCEPT !.title = <<"t">>, !.citationCount = NonNumeric] }

HandleRaws ==
    UNION { { [i \in 1..n |-> [f[i] EXCEPT !.paperId = PaperIdAt(i),
                                           !.title = f[i].title \o DecStr(i)]] :
                f \in [1..n -> HandleShapes] } : n \in 0..MaxCandidates }

REASON_CAP == "Deferred due to ingest candidate cap"

HandleIdle ==
    /\ hbody = [found |-> <<>>] /\ hpc = "idle" /\ all_candidates = <<>>
    /\ deferred_due_cap = <<>> /\ query_pdf_extraction_selected = 0
    /\ hresult = [kind |-> "none"]

\* The request: papers stands for [*explicit_papers, *discovered], the
\* records handed to merge_papers; with a query they are what the sources
\* returned.  timeBudgetSeconds is 8, which gives ingest_papers 6 seconds.
HandleInit ==
    /\ hbody \in [found : HandleRaws, query : BOOLEAN,
                  limit : {NonNumeric, Int_(1)},
                  maxCandidates : {Int_(0), Int_(2)},
                  queryPdfPaperLimit : {Int_(0), Int_(1)},
                  extractPdfText : BOOLEAN,
                  chunk : {[size |-> 1, overlap |-> 0, min |-> 1]},
                  timeBudgetSeconds : {Int_(8)}]
    /\ hpc = "call" /\ all_candidates = <<>>
    /\ deferred_due_cap = <<>> /\ query_pdf_extraction_selected = 0
    /\ hresult = [kind |-> "none"]

limit_of(body) == clamp_int(body.limit, 8, 1, 50)
max_candidates_of(body) == clamp_int(body.maxCandidates, MAX_INGEST_CANDIDATES, 1, 40)
query_pdf_paper_limit_of(body) == clamp_int(body.queryPdfPaperLimit, MAX_QUERY_PDF_PAPERS, 0, 8)
time_budget_of(body) == clamp_int(body.timeBudgetSeconds, 24, 8, 28)
\* discovery_budget = max(5, min(14, time_budget // 2)), and the max_seconds
\* handed to ingest_papers: max(6, time_budget - discovery_budget)
discovery_budget(time_budget) == Max(5, Min(14, time_budget \div 2))
ingest_budget(time_budget) == Max(6, time_budget - discovery_budget(time_budget))
discovery_budget_of(body) == discovery_budget(time_budget_of(body))

\* handle_ingest up to the candidate list: merge_papers, which raises on a
\* record that normalize_paper rejects, and the priority order of a
\* query-driven request.
HandleMerge ==
    /\ hpc = "call"
    /\ IF \E i \in 1..Len(hbody.found) : normalize_raises(hbody.found[i])
       THEN hpc' = "raised" /\ UNCHANGED all_candidates
       ELSE /\ hpc' = "select"
            /\ all_candidates' = IF hbody.query THEN sort_by_priority(merge_papers(hbody.found))
                                 ELSE merge_papers(hbody.found)
    /\ UNCHANGED <<notHandle, hbody, deferred_due_cap, query_pdf_extraction_selected, hresult>>

selected_candidates ==
    SubSeq(all_candidates, 1,
           selected_count(Len(all_candidates), hbody.query, max_candidates_of(hbody),
                          limit_of(hbody)))

\* selected_candidates after the PDF selection of a query-driven request
\* that asks for PDF extraction
pdf_selection ==
    LET cleared == [i \in 1..Len(selected_candidates) |->
                       [selected_candidates[i] EXCEPT !.allowPdfExtract = FALSE]]
    IN  IF ~(hbody.query /\ hbody.extractPdfText) THEN selected_candidates
        ELSE IF query_pdf_paper_limit_of(hbody) > 0
        THEN enable_pdf(cleared, 0, query_pdf_paper_limit_of(hbody))
        ELSE cleared

extract_pdf_effective(marked) ==
    IF hbody.query /\ hbody.extractPdfText THEN AllowedCount(marked) > 0
    ELSE IF hbody.extractPdfText /\ Len(marked) > 6 THEN FALSE
    ELSE hbody.extractPdfText

\* handle_ingest from the candidate cap to its call of ingest_papers;
\* without candidates the reply is returned at once.
HandleSelect ==
    /\ hpc = "select"
    /\ deferred_due_cap' = SubSeq(all_candidates, Len(selected_candidates) + 1,
                                  Len(all_candidates))
    /\ query_pdf_extraction_selected' =
          IF hbody.query /\ hbody.extractPdfText THEN AllowedCount(pdf_selection) ELSE 0
    /\ IF all_candidates = <<>>
       THEN /\ hpc' = "returned"
            /\ hresult' = [kind |-> "empty", ingestedPapers |-> 0,
                           ingestedChunks |-> 0, skippedPapers |-> <<>>,
                           failedPapers |-> <<>>]
            /\ UNCHANGED ingestVars
       ELSE /\ hpc' = "ingest"
            /\ UNCHANGED hresult
            /\ papers' = pdf_selection
            /\ extract_pdf' = extract_pdf_effective(pdf_selection)
            /\ chunk_params' = hbody.chunk
            /\ max_seconds' = ingest_budget(time_budget_of(hbody))
            /\ pc' = "loop"
            /\ UNCHANGED <<idx, clock, paper, text_parts, chunk_rows,
                           ingested_papers, ingested_chunks, skipped, failed,
                           timed_out, budget_hit_at, mismatch_at, store>>
    /\ UNCHANGED <<notHandleNorIngest, hbody, all_candidates>>

CapEntry(p, count, n) ==
    [paperId |-> p.paperId, title |-> p.title, reason |-> REASON_CAP, cap |-> count, of |-> n]

\* handle_ingest after ingest_papers has returned: the entries of the
\* candidates beyond the cap go in front of skippedPapers.  The numbers of
\* the reason text are kept in the fields cap and of.
HandleReturn ==
    /\ hpc = "ingest" /\ pc = "done"
    /\ hpc' = "returned"
    /\ hresult' =
          [kind |-> "stats",
           candidateCount |-> Len(all_candidates),
           selectedCandidateCount |-> Len(papers),
           candidateCap |-> Len(papers),
           truncatedCandidates |-> Len(deferred_due_cap),
           ingestedPapers |-> ingested_papers,
           ingestedChunks |-> ingested_chunks,
           skippedPapers |->
              [i \in 1..Len(deferred_due_cap) |->
                  CapEntry(deferred_due_cap[i], Len(papers), Len(all_candidates))] \o skipped,
           failedPapers |-> failed,
           timedOut |-> timed_out,
           requestedPdfExtraction |-> hbody.extractPdfText,
           effectivePdfExtraction |-> extract_pdf,
           queryPdfPaperLimit |-> IF hbody.query THEN query_pdf_paper_limit_of(hbody) ELSE -1,
           queryPdfExtractionSelected |->
              IF hbody.query THEN query_pdf_extraction_selected ELSE 0]
    /\ UNCHANGED <<notHandle, hbody, all_candidates, deferred_due_cap,
                   query_pdf_extraction_selected>>

-----------------------------------------------------------------------------
(* lambda_handler with handle_ask, handle_insights and handle_gaps *)

ACTION_ASK == <<"a", "s", "k">>
ACTION_INGEST == <<"i", "n", "g", "e", "s", "t">>
ACTION_INSIGHTS == <<"i", "n", "s", "i", "g", "h", "t", "s">>
ACTION_GAPS == <<"g", "a", "p", "s">>

ERR_QUESTION == "question is required"
ERR_ACTION == "Invalid action. Use 'ingest', 'ask', 'insights', or 'gaps'."
ERR_OPENAI_KEY == "Missing OPENAI_API_KEY"
ERR_PINECONE_HOST == "Missing PINECONE_INDEX_HOST"
ERR_PINECONE_KEY == "Missing PINECONE_API_KEY"
ERR_INT_LITERAL == "invalid literal for int() with base 10"
ERR_NOT_JSON == "Expecting value"
ERR_EMBED_HTTP == "Internal server error: OpenAI embeddings failed"
ERR_EMBED_EMPTY == "Internal server error: Failed to embed"
ERR_QUERY_HTTP == "Internal server error: Pinecone query failed"
ERR_CHAT_HTTP == "Internal server error: OpenAI chat failed"

\* create_response: the status and, of the JSON body, its error message or
\* the kind of result it carries.
create_response(status_code, error, result) ==
    [statusCode |-> status_code, error |-> error, result |-> result]

NoResponse == create_response(0, "", "")

\* except ValueError -> 400, except Exception -> 500
error_response(exc, message) ==
    IF exc = "ValueError" THEN create_response(400, message, "")
    ELSE create_response(500, message, "")

\* parse_event_body: a body that is no JSON text is read as {}
parse_event_body(ev) ==
    IF ev.body_is_json THEN [action |-> ev.action, question |-> ev.question, papers |-> ev.papers]
    ELSE [action |-> <<>>, question |-> <<>>, papers |-> <<>>]

\* clean_text(str(body.get("action") or "ask")).lower()
action_of(ev) ==
    LET a == parse_event_body(ev).action
    IN  Lower(clean_text(IF a = <<>> THEN ACTION_ASK ELSE a))

LambdaInit ==
    /\ event \in [httpMethod : {"OPTIONS", "POST"},
                  body_is_json : BOOLEAN,
                  action : {<<>>, ACTION_ASK, <<" ", "A", "s", "k">>, ACTION_INGEST,
                            ACTION_INSIGHTS, ACTION_GAPS, <<"x">>},
                  question : {<<>>, <<" ">>, <<"q">>},
                  papers : {<<>>} \cup { <<r>> : r \in HandleShapes }]
    /\ environ \in [OPENAI_API_KEY : BOOLEAN, PINECONE_INDEX_HOST : BOOLEAN,
                    PINECONE_API_KEY : BOOLEAN]
    /\ lpc = "start" /\ route = <<>> /\ matches_found = FALSE
    /\ response = NoResponse

Respond(r) ==
    /\ response' = r
    /\ lpc' = "done"

\* CORS preflight
Preflight ==
    /\ lpc = "start"
    /\ event.httpMethod = "OPTIONS"
    /\ Respond(create_response(200, "", "preflight"))
    /\ UNCHANGED <<notLambda, event, environ, route, matches_found>>

\* action == "ingest": handle_ingest on the request's papers, without a
\* discovery query.  merge_papers normalizes every record, outside any try
\* block; failures of the embedding and upsert calls stay per paper.
RouteIngest ==
    /\ lpc = "start"
    /\ event.httpMethod # "OPTIONS"
    /\ action_of(event) = ACTION_INGEST
    /\ route' = ACTION_INGEST
    /\ LET body == parse_event_body(event)
       IN  IF \E i \in 1..Len(body.papers) : normalize_raises(body.papers[i])
           THEN Respond(error_response("ValueError", ERR_INT_LITERAL))
           ELSE Respond(create_response(200, "", "ingest"))
    /\ UNCHANGED <<notLambda, event, environ, matches_found>>

\* action == "ask": handle_ask up to the embedding call
RouteAsk ==
    /\ lpc = "start"
    /\ event.httpMethod # "OPTIONS"
    /\ action_of(event) = ACTION_ASK
    /\ route' = ACTION_ASK
    /\ IF clean_text(parse_event_body(event).question) = <<>>
       THEN Respond(error_response("ValueError", ERR_QUESTION))
       ELSE lpc' = "embed" /\ UNCHANGED response
    /\ UNCHANGED <<notLambda, event, environ, matches_found>>

\* action == "insights" or "gaps": a missing question gets a default
RouteInsightsOrGaps ==
    /\ lpc = "start"
    /\ event.httpMethod # "OPTIONS"
    /\ action_of(event) \in {ACTION_INSIGHTS, ACTION_GAPS}
    /\ route' = action_of(event)
    /\ lpc' = "embed"
    /\ UNCHANGED <<notLambda, event, environ, matches_found, response>>

RouteInvalid ==
    /\ lpc = "start"
    /\ event.httpMethod # "OPTIONS"
    /\ action_of(event) \notin {ACTION_INGEST, ACTION_ASK, ACTION_INSIGHTS, ACTION_GAPS}
    /\ Respond(create_response(400, ERR_ACTION, ""))
    /\ UNCHANGED <<notLambda, event, environ, route, matches_found>>

\* openai_embed_texts([question], embed_model): _openai_headers first, then
\* the HTTP call, whose reply is an error status, a body that is no JSON
\* (response.json() raises a ValueError), a list without embedding, or one
\* embedding.
EmbedQuestion ==
    /\ lpc = "embed"
    /\ IF ~environ.OPENAI_API_KEY
       THEN Respond(error_response("ValueError", ERR_OPENAI_KEY))
       ELSE \E reply \in {"http_error", "not_json", "no_embedding", "embedding"} :
               CASE reply = "http_error" -> Respond(error_response("RuntimeError", ERR_EMBED_HTTP))
                 [] reply = "not_json" -> Respond(error_response("ValueError", ERR_NOT_JSON))
                 [] reply = "no_embedding" -> Respond(error_response("RuntimeError", ERR_EMBED_EMPTY))
                 [] OTHER -> lpc' = "query" /\ UNCHANGED response
    /\ UNCHANGED <<notLambda, event, environ, route, matches_found>>

\* pinecone_query: _normalize_pinecone_host, then _pinecone_headers, then the
\* HTTP call; hybrid_rerank_matches keeps at least one match if there is one.
QueryIndex ==
    /\ lpc = "query"
    /\ IF ~environ.PINECONE_INDEX_HOST
       THEN Respond(error_response("ValueError", ERR_PINECONE_HOST)) /\ UNCHANGED matches_found
       ELSE IF ~environ.PINECONE_API_KEY
       THEN Respond(error_response("ValueError", ERR_PINECONE_KEY)) /\ UNCHANGED matches_found
       ELSE \E reply \in {"http_error", "no_match", "matches"} :
               IF reply = "http_error"
               THEN Respond(error_response("RuntimeError", ERR_QUERY_HTTP)) /\ UNCHANGED matches_found
               ELSE /\ matches_found' = (reply = "matches")
                    /\ lpc' = "synthesize"
                    /\ UNCHANGED response
    /\ UNCHANGED <<notLambda, event, environ, route>>

\* The chat completion call of openai_chat_json
ChatReplies == {"http_error", "empty_object", "payload"}

\* handle_ask after retrieval: the no-match reply, or synthesize_answer and
\* the fallback_answer when it reports the missing key or gives no payload.
AskAnswer ==
    /\ lpc = "synthesize"
    /\ route = ACTION_ASK
    /\ IF ~matches_found THEN Respond(create_response(200, "", "no_documents"))
       ELSE IF ~environ.OPENAI_API_KEY THEN Respond(create_response(200, "", "fallback"))
       ELSE \E reply \in ChatReplies :
               CASE reply = "http_error" -> Respond(error_response("RuntimeError", ERR_CHAT_HTTP))
                 [] reply = "empty_object" -> Respond(create_response(200, "", "fallback"))
                 [] OTHER -> Respond(create_response(200, "", "synthesis"))
    /\ UNCHANGED <<notLambda, event, environ, route, matches_found>>

\* handle_insights after retrieval, with synthesize_insights_payload
InsightsAnswer ==
    /\ lpc = "synthesize"
    /\ route = ACTION_INSIGHTS
    /\ IF ~matches_found THEN Respond(create_response(200, "", "no_documents"))
       ELSE IF ~environ.OPENAI_API_KEY THEN Respond(create_response(200, "", "fallback"))
       ELSE \E reply \in ChatReplies :
               IF reply = "http_error"
               THEN Respond(error_response("RuntimeError", ERR_CHAT_HTTP))
               ELSE Respond(create_response(200, "", "synthesis"))
    /\ UNCHANGED <<notLambda, event, environ, route, matches_found>>

\* handle_gaps after retrieval: the chat call only with a key and matches,
\* the heuristic gaps otherwise or when the payload has none.
GapsAnswer ==
    /\ lpc = "synthesize"
    /\ route = ACTION_GAPS
    /\ IF environ.OPENAI_API_KEY /\ matches_found
       THEN \E reply \in ChatReplies :
               CASE reply = "http_error" -> Respond(error_response("RuntimeError", ERR_CHAT_HTTP))
                 [] reply = "empty_object" -> Respond(create_response(200, "", "fallback"))
                 [] OTHER -> Respond(create_response(200, "", "synthesis"))
       ELSE Respond(create_response(200, "", "fallback"))
    /\ UNCHANGED <<notLambda, event, environ, route, matches_found>>

-----------------------------------------------------------------------------
(* ingest_papers called a second time on the same list *)

\* Records without PDF link: a text of 17 words (one more than
\* MAX_CHUNKS_PER_PAPER chunks of one word), a short text, metadata only.
ReingestShapes ==
    { [BlankRaw EXCEPT !.fullText = WordsText(MAX_CHUNKS_PER_PAPER + 1)],
      [BlankRaw EXCEPT !.title = <<"a", "b">>, !.abstract = <<"c">>],
      [BlankRaw EXCEPT !.authors = << <<"A">> >>, !.year = 2020] }

ReingestInputs ==
    UNION { { [i \in 1..n |-> [f[i] EXCEPT !.paperId = PaperIdAt(i)]] :
                f \in [1..n -> ReingestShapes] } : n \in 1..2 }

ReingestInit ==
    /\ papers \in ReingestInputs
    /\ max_seconds = 0
    /\ extract_pdf = FALSE
    /\ chunk_params = [size |-> 1, overlap |-> 0, min |-> 1]
    /\ pc = "loop" /\ idx = 1 /\ clock = 0 /\ paper = BlankRaw
    /\ text_parts = <<>> /\ chunk_rows = <<>>
    /\ ingested_papers = 0 /\ ingested_chunks = 0
    /\ skipped = <<>> /\ failed = <<>> /\ timed_out = FALSE
    /\ budget_hit_at = {} /\ mismatch_at = {} /\ store = {}
    /\ pass_no = 1 /\ first_store = {}

\* The first call has returned; ingest_papers is called again with the same
\* arguments.  Its locals start afresh, the vector store keeps its records.
Reingest ==
    /\ pc = "done" /\ pass_no = 1
    /\ pass_no' = 2
    /\ first_store' = store
    /\ pc' = "loop" /\ idx' = 1 /\ paper' = BlankRaw
    /\ text_parts' = <<>> /\ chunk_rows' = <<>>
    /\ ingested_papers' = 0 /\ ingested_chunks' = 0
    /\ skipped' = <<>> /\ failed' = <<>> /\ timed_out' = FALSE
    /\ budget_hit_at' = {} /\ mismatch_at' = {}
    /\ UNCHANGED <<notIngestNorReingest, papers, max_seconds, extract_pdf, chunk_params,
                   clock, store>>

-----------------------------------------------------------------------------
(* ingest_papers on three papers under a budget *)

\* Three records, each with a text or with a PDF link.
DeferInputs ==
    { [i \in 1..3 |-> [f[i] EXCEPT !.paperId = PaperIdAt(i)]] :
        f \in [1..3 -> { [BlankRaw EXCEPT !.title = <<"a", "b">>],
                         [BlankRaw EXCEPT !.title = <<"a", "b">>, !.pdfUrl = <<"u">>] }] }

DeferInit ==
    /\ papers \in DeferInputs
    /\ max_seconds = MaxClock
    /\ extract_pdf = TRUE
    /\ chunk_params = [size |-> 1, overlap |-> 0, min |-> 1]
    /\ pc = "loop" /\ idx = 1 /\ clock = 0 /\ paper = BlankRaw
    /\ text_parts = <<>> /\ chunk_rows = <<>>
    /\ ingested_papers = 0 /\ ingested_chunks = 0
    /\ skipped = <<>> /\ failed = <<>> /\ timed_out = FALSE
    /\ budget_hit_at = {} /\ mismatch_at = {} /\ store = {}

-----------------------------------------------------------------------------
(* merge_papers applied to its own output (discover_papers, handle_ingest) *)

\* Raw records under the merge keys title:ab (two spellings), doi:x (with and
\* without the resolver prefix), id:p5, and two DOIs that carry the resolver
\* prefix twice or a blank after it.
RemergeKeyShapes ==
    { [BlankRaw EXCEPT !.paperId = <<"p", "1">>, !.title = <<"A", "b">>],
      [BlankRaw EXCEPT !.paperId = <<"p", "2">>, !.title = <<" ", "a", "b", "!">>],
      [BlankRaw EXCEPT !.paperId = <<"p", "3">>, !.title = <<"A", "b">>,
                       !.doi = DoiPrefix \o <<"X">>],
      [BlankRaw EXCEPT !.title = <<"c">>, !.doi = <<"x">>, !.year = 2020],
      [BlankRaw EXCEPT !.paperId = <<"p", "5">>],
      [BlankRaw EXCEPT !.paperId = <<"p", "6">>, !.doi = DoiPrefix \o DoiPrefix \o <<"x">>],
      [BlankRaw EXCEPT !.paperId = <<"p", "7">>, !.doi = DoiPrefix \o <<" ", "y">>] }

\* Each with at most one of: an abstract, citations, two authors.
RemergeShapes ==
    UNION { { r,
              [r EXCEPT !.abstract = <<"s">>],
              [r EXCEPT !.citationCount = Int_(5)],
              [r EXCEPT !.authors = << <<"A">>, <<"B">> >>] } : r \in RemergeKeyShapes }

RemergeInit ==
    /\ \E n \in 0..MaxRaws :
          /\ raws \in [1..n -> RemergeShapes]
          /\ perm = [i \in 1..n |-> i]
    /\ mpos = 0 /\ selected = <<>> /\ selectedP = <<>>
    /\ again = <<>> /\ apos = 0

\* One iteration of the loop of the second call, over list(selected.values())
\* of the first.
RemergeStep ==
    /\ MergeDone /\ apos < Len(selected)
    /\ apos' = apos + 1
    /\ again' = merge_one(again, selected[apos + 1].paper)
    /\ UNCHANGED <<notRemerge>>

RemergeDone == MergeDone /\ apos = Len(selected)

-----------------------------------------------------------------------------
(* discover_papers *)

OPENALEX == <<"o", "p", "e", "n", "a", "l", "e", "x">>
SEMANTIC_SCHOLAR ==
    <<"s", "e", "m", "a", "n", "t", "i", "c", "_", "s", "c", "h", "o", "l", "a", "r">>
SEMANTICSCHOLAR ==
    <<"s", "e", "m", "a", "n", "t", "i", "c", "s", "c", "h", "o", "l", "a", "r">>
CROSSREF == <<"c", "r", "o", "s", "s", "r", "e", "f">>

\* {s.strip().lower() for s in sources if s}
wanted(srcs) ==
    { Lower(RStrip(LStrip(srcs[i]))) : i \in { j \in 1..Len(srcs) : srcs[j] # <<>> } }

\* (time.time() - start_time) <= max_seconds
within_budget_inclusive(elapsed, limit) == IF limit = 0 THEN TRUE ELSE elapsed <= limit
\* within_budget()
within_budget(elapsed, limit) == IF limit = 0 THEN TRUE ELSE elapsed < limit

\* The names under which each block of discover_papers is requested.
BlockNames ==
    [openalex |-> {OPENALEX},
     semantic_scholar |-> {SEMANTIC_SCHOLAR, SEMANTICSCHOLAR},
     crossref |-> {CROSSREF}]
BlockOrder == <<"openalex", "semantic_scholar", "crossref">>
AfterBlock == [openalex |-> "semantic_scholar", semantic_scholar |-> "crossref",
               crossref |-> "return"]

\* The source field the records of an adapter carry.
AdapterSource ==
    [openalex |-> <<"O", "p", "e", "n", "A", "l", "e", "x">>,
     semantic_scholar |-> <<"S", "e", "m", "a", "n", "t", "i", "c", " ",
                            "S", "c", "h", "o", "l", "a", "r">>,
     crossref |-> <<"C", "r", "o", "s", "s", "r", "e", "f">>]

\* What an adapter can return: no record, a record only it knows, or that
\* record and one of a paper every source knows by the DOI x.
AdapterResults(block) ==
    LET own == [BlankRaw EXCEPT !.paperId = <<block>>, !.title = <<block>>,
                                !.source = AdapterSource[block]]
        shared == [BlankRaw EXCEPT !.paperId = <<block, "x">>, !.title = <<"T">>,
                                   !.doi = <<"x">>, !.source = AdapterSource[block]]
    IN  { <<>>, <<own>>, <<own, shared>> }

\* The seconds a call of an adapter can take.
AdapterSeconds == 0..(MaxClock \div 3)

\* One block of discover_papers: the source is not requested; or the budget
\* has elapsed and budget_hit is set; or the adapter is called and either
\* returns records, which extend discovered, or raises, which is printed.
DiscoverBlock(block) ==
    /\ dpc = block
    /\ dpc' = AfterBlock[block]
    /\ IF BlockNames[block] \cap wanted(sources) = {}
       THEN UNCHANGED <<dclock, discovered, dbudget_hit, queried_at, returned_by>>
       ELSE IF ~within_budget(dclock, dmax)
       THEN /\ dbudget_hit' = TRUE
            /\ UNCHANGED <<dclock, discovered, queried_at, returned_by>>
       ELSE /\ queried_at' = MapPut(queried_at, block, dclock)
            /\ \E seconds \in AdapterSeconds : dclock' = dclock + seconds
            /\ \/ \E records \in AdapterResults(block) :
                     /\ discovered' = discovered \o records
                     /\ returned_by' = MapPut(returned_by, block, records)
               \/ UNCHANGED <<discovered, returned_by>>
            /\ UNCHANGED dbudget_hit
    /\ UNCHANGED <<notDiscover, sources, dmax, dresult>>

DiscoverOpenAlex == DiscoverBlock("openalex")
DiscoverSemanticScholar == DiscoverBlock("semantic_scholar")
DiscoverCrossref == DiscoverBlock("crossref")

\* return merge_papers(discovered), budget_hit
DiscoverReturn ==
    /\ dpc = "return"
    /\ dresult' = merge_papers(discovered)
    /\ dpc' = "done"
    /\ UNCHANGED <<notDiscover, sources, dmax, dclock, discovered, dbudget_hit,
                   queried_at, returned_by>>

\* Source lists: the default of handle_ingest, names in other spellings, both
\* names of Semantic Scholar, an unknown name, empty and blank names, a
\* repeated name, and no name.
PadName(name) == <<" ">> \o name \o <<" ">>
UpperFirst(name) ==
    [i \in 1..Len(name) |->
        IF i = 1 /\ \E k \in 1..Len(LowerLetters) : LowerLetters[k] = name[1]
        THEN UpperLetters[CHOOSE k \in 1..Len(LowerLetters) : LowerLetters[k] = name[1]]
        ELSE name[i]]
DiscoverSources ==
    { <<OPENALEX, SEMANTIC_SCHOLAR, CROSSREF>>,
      <<PadName(UpperFirst(OPENALEX)), SEMANTICSCHOLAR>>,
      <<SEMANTIC_SCHOLAR, SEMANTICSCHOLAR, UpperFirst(CROSSREF)>>,
      <<CROSSREF, <<"a", "r", "x", "i", "v">>, OPENALEX>>,
      <<CROSSREF, CROSSREF>>,
      << <<>>, <<" ">> >>,
      <<>> }

DiscoverInit ==
    /\ sources \in DiscoverSources
    /\ dmax \in {0, MaxClock \div 3, MaxClock \div 2}
    /\ dclock = 0 /\ dpc = "openalex" /\ discovered = <<>> /\ dbudget_hit = FALSE
    /\ queried_at = <<>> /\ returned_by = <<>> /\ dresult = <<>>

-----------------------------------------------------------------------------
(* deduplicate_papers (search_papers/lambda_function_multisource.py) *)

NoRank == -1

\* A record of the search lambda: <<>> stands for a missing, None or empty
\* text or list, NoRank for a missing _rank or _sourceRank.
BlankFound ==
    [title |-> <<>>, doi |-> <<>>, source |-> <<>>, sources |-> <<>>,
     citationCount |-> 0, abstract |-> <<>>, pdfUrl |-> <<>>,
     rank |-> NoRank, sourceRank |-> NoRank]

\* t = ''.join(c.lower() for c in t if c.isalnum() or c.isspace());
\* ' '.join(t.split())
norm_title(t) ==
    RStrip(LStrip(CollapseWs(SelectSeq(Lower(t), LAMBDA c : c \in LowerAlnumSpace))))

\* 10**9 for a missing _rank
dedup_rank(p) == IF p.rank = NoRank \/ p.rank = 0 THEN 1000000000 ELSE p.rank

\* (citations, has_abstract, has_pdf, -rank)
dedup_score(p) ==
    <<p.citationCount,
      IF p.abstract # <<>> THEN 1 ELSE 0,
      IF p.pdfUrl # <<>> THEN 1 ELSE 0,
      -dedup_rank(p)>>

\* a > b for tuples of four integers
TupleGt4(a, b) ==
    \E i \in 1..4 : a[i] > b[i] /\ \A j \in 1..(i - 1) : a[j] = b[j]

\* a.get('sources') or [a.get('source')]
source_list(a) == IF a.sources # <<>> THEN a.sources ELSE <<a.source>>

\* The loop of merge_source_lists over a list of names.
RECURSIVE append_names_with_repeats(_, _)
append_names_with_repeats(merged, names) ==
    IF names = <<>> THEN merged
    ELSE LET src_s == RStrip(LStrip(Head(names)))
         IN  append_names_with_repeats(
                 IF src_s # <<>> THEN Append(merged, src_s) ELSE merged, Tail(names))
RECURSIVE append_names(_, _)
append_names(merged, names) ==
    IF names = <<>> THEN merged
    ELSE LET src_s == RStrip(LStrip(Head(names)))
         IN  append_names(
                 IF src_s # <<>> /\ \A i \in 1..Len(merged) : merged[i] # src_s
                 THEN Append(merged, src_s) ELSE merged,
                 Tail(names))

merge_source_lists(a, b) == append_names(<<>>, source_list(a) \o source_list(b))

\* The key of a record; <<>> when it has no usable key.
dedup_key(p) ==
    LET doi == Lower(RStrip(LStrip(p.doi)))
        title == norm_title(p.title)
    IN  IF doi # <<>> THEN <<"doi:">> \o doi
        ELSE IF title # <<>> THEN <<"title:">> \o title
        ELSE <<>>

\* min(int(existing['_rank']), int(p['_rank'])) when both are present
earliest(a, b, kept) == IF a # NoRank /\ b # NoRank THEN Min(a, b) ELSE kept

\* One iteration of the loop of deduplicate_papers.
DedupStep ==
    /\ dd_pos < Len(dd_papers)
    /\ dd_pos' = dd_pos + 1
    /\ LET p == dd_papers[dd_pos + 1]
           key == dedup_key(p)
       IN  IF key = <<>>
           THEN by_key' = Append(by_key, [key |-> <<"anon:", dd_pos + 1>>,
                                          from |-> dd_pos + 1, paper |-> p])
           ELSE IF ~HasKey(by_key, key)
           THEN by_key' = Append(by_key,
                                 [key |-> key, from |-> dd_pos + 1,
                                  paper |-> [p EXCEPT !.sources =
                                                merge_source_lists(BlankFound, p)]])
           ELSE by_key' =
                  [i \in 1..Len(by_key) |->
                     IF by_key[i].key # key THEN by_key[i]
                     ELSE LET existing == by_key[i].paper
                              merged_sources == merge_source_lists(existing, p)
                          IN  IF TupleGt4(dedup_score(p), dedup_score(existing))
                              THEN [key |-> key, from |-> dd_pos + 1,
                                    paper |-> [p EXCEPT
                                       !.rank = earliest(existing.rank, p.rank, p.rank),
                                       !.sourceRank = earliest(existing.sourceRank,
                                                               p.sourceRank, p.sourceRank),
                                       !.sources = merged_sources]]
                              ELSE [key |-> key, from |-> by_key[i].from,
                                    paper |-> [existing EXCEPT
                                       !.rank = earliest(existing.rank, p.rank,
                                                         existing.rank),
                                       !.sourceRank = earliest(existing.sourceRank,
                                                               p.sourceRank,
                                                               existing.sourceRank),
                                       !.sources = merged_sources]]]
    /\ UNCHANGED <<notDedup, dd_papers>>

DedupDone == dd_pos = Len(dd_papers)

OpenAlexName == <<"O", "p", "e", "n", "A", "l", "e", "x">>
CrossrefName == <<"C", "r", "o", "s", "s", "r", "e", "f">>
ArxivName == <<"a", "r", "X", "i", "v">>

\* Records of one paper under its DOI in two spellings, of a paper known by
\* its title in two spellings, a record with the title and the DOI, a record
\* that already carries a sources list, one without source, and one with
\* neither DOI nor title.
DedupShapes ==
    { [BlankFound EXCEPT !.title = <<"S", "a">>, !.doi = <<"1", "/", "X">>,
                         !.source = OpenAlexName, !.citationCount = 120,
                         !.abstract = <<"a">>, !.pdfUrl = <<"u">>],
      [BlankFound EXCEPT !.title = <<"S", "b">>, !.doi = <<" ", "1", "/", "x", " ">>,
                         !.source = CrossrefName, !.citationCount = 5],
      [BlankFound EXCEPT !.title = <<"S", "a">>, !.source = <<" ">> \o CrossrefName,
                         !.citationCount = 5],
      [BlankFound EXCEPT !.title = <<"s", "a", "!">>, !.source = ArxivName,
                         !.abstract = <<"a">>],
      [BlankFound EXCEPT !.doi = <<"1", "/", "x">>, !.source = OpenAlexName,
                         !.sources = <<OpenAlexName, ArxivName>>,
                         !.citationCount = 120],
      [BlankFound EXCEPT !.title = <<"s", "A">>, !.citationCount = 5],
      [BlankFound EXCEPT !.source = ArxivName] }

\* Lists of 0..MaxCandidates records, ranked by attach_rank in list order.
DedupInit ==
    /\ \E n \in 0..MaxCandidates :
          \E shapes \in [1..n -> DedupShapes] :
             dd_papers = [i \in 1..n |-> [shapes[i] EXCEPT !.rank = i - 1,
                                                          !.sourceRank = i - 1]]
    /\ dd_pos = 0 /\ by_key = <<>>

-----------------------------------------------------------------------------
(* relevance_rank_with_source_diversity
   (search_papers/lambda_function_multisource.py) *)

\* datetime.now().year
current_year == 2026

\* safe_int(paper.get('_sourceRank'), safe_int(paper.get('_rank'), 10**6))
source_rank_of(p) ==
    IF p.sourceRank # NoRank THEN p.sourceRank
    ELSE IF p.rank # NoRank THEN p.rank ELSE 1000000

\* min(math.log1p(float(citations)) / 8.0, 0.6) in units of 10^-9, for the
\* citation counts of the model's papers
citation_score(citations) ==
    CASE citations = 0 -> 0
      [] citations = 5 -> 223969934
      [] citations = 120 -> 599473818
      [] OTHER -> 600000000

\* max(0.0, 1.0 - (min(age, 40) / 40.0)) * 0.25 in units of 10^-9
recency_score(year) ==
    IF year > 0
    THEN LET age == Max(0, current_year - year)
         IN  (40 - Min(age, 40)) * (250000000 \div 40)
    ELSE 0

\* round(base_rank_score + citation_score + recency_score + metadata_score, 6)
\* in millionths
relevance_score(p) ==
    LET base_rank_score == 1000000000 \div (1 + source_rank_of(p))
        metadata_score == (IF RStrip(LStrip(p.abstract)) # <<>> THEN 150000000 ELSE 0)
                          + (IF RStrip(LStrip(p.pdfUrl)) # <<>> THEN 50000000 ELSE 0)
    IN  (base_rank_score + citation_score(Max(0, p.citationCount))
            + recency_score(p.year) + metadata_score + 500) \div 1000

UnknownName == <<"U", "n", "k", "n", "o", "w", "n">>

\* (paper.get('source') or 'Unknown').strip() or 'Unknown'
bucket_source(p) ==
    LET stripped == RStrip(LStrip(IF p.source # <<>> THEN p.source ELSE UnknownName))
    IN  IF stripped # <<>> THEN stripped ELSE UnknownName

\* buckets.setdefault(source, []).append(paper)
bucket_append(bs, source, item) ==
    IF \E i \in 1..Len(bs) : bs[i].source = source
    THEN [i \in 1..Len(bs) |->
            IF bs[i].source = source
            THEN [bs[i] EXCEPT !.items = Append(bs[i].items, item)] ELSE bs[i]]
    ELSE Append(bs, [source |-> source, items |-> <<item>>])

\* The sort key of a paper in its bucket: (_relevanceScore, -_sourceRank).
bucket_key(scores, list, item) == <<scores[item], -source_rank_of(list[item])>>

\* a > b and a >= b for pairs of integers
PairGt(a, b) == a[1] > b[1] \/ (a[1] = b[1] /\ a[2] > b[2])
PairGe(a, b) == a = b \/ PairGt(a, b)

\* list.sort(key=..., reverse=True): descending, equal keys in their order;
\* keys[item] is the key of an item.
place_ascending(sorted, item, keys) ==
    LET before == { i \in 1..Len(sorted) : PairGe(keys[item], keys[sorted[i]]) }
        n == Cardinality(before)
    IN  SubSeq(sorted, 1, n) \o <<item>> \o SubSeq(sorted, n + 1, Len(sorted))
place_descending(sorted, item, keys) ==
    LET before == { i \in 1..Len(sorted) : PairGe(keys[sorted[i]], keys[item]) }
        n == Cardinality(before)
    IN  SubSeq(sorted, 1, n) \o <<item>> \o SubSeq(sorted, n + 1, Len(sorted))

RECURSIVE sort_descending(_, _, _)
sort_descending(sorted, rest, keys) ==
    IF rest = <<>> THEN sorted
    ELSE sort_descending(place_descending(sorted, Head(rest), keys), Tail(rest), keys)

\* (len(buckets[s]), max(_relevanceScore of buckets[s]))
source_key(scores, bucket) ==
    <<Len(bucket.items),
      SeqMax([i \in 1..Len(bucket.items) |-> scores[bucket.items[i]]])>>

\* One pass of the for loop over source_order: the head of every bucket that
\* is not empty, until limit papers are ranked.
RECURSIVE round(_, _, _, _)
round(order, bs, picked, limit) ==
    IF order = <<>> \/ Len(picked) >= limit THEN [buckets |-> bs, ranked |-> picked]
    ELSE LET i == CHOOSE k \in 1..Len(bs) : bs[k].source = Head(order)
         IN  IF bs[i].items = <<>> THEN round(Tail(order), bs, picked, limit)
             ELSE round(Tail(order),
                        [bs EXCEPT ![i].items = Tail(bs[i].items)],
                        Append(picked, Head(bs[i].items)),
                        limit)

\* if not papers: return []
RankNothing ==
    /\ rk_pc = "start" /\ rk_papers = <<>>
    /\ rk_pc' = "done"
    /\ UNCHANGED <<notRank, rk_papers, rk_limit, rk_pos, rk_scores, buckets, source_order,
                   rk_ranked>>

\* One iteration of the loop that scores the papers and fills the buckets.
ScorePaper ==
    /\ rk_pc = "start" /\ rk_pos < Len(rk_papers)
    /\ rk_pos' = rk_pos + 1
    /\ rk_scores' = Append(rk_scores, relevance_score(rk_papers[rk_pos + 1]))
    /\ buckets' = bucket_append(buckets, bucket_source(rk_papers[rk_pos + 1]), rk_pos + 1)
    /\ UNCHANGED <<notRank, rk_papers, rk_limit, rk_pc, source_order, rk_ranked>>

\* The buckets are sorted and the order of the sources is fixed.
SortBuckets ==
    /\ rk_pc = "start" /\ rk_papers # <<>> /\ rk_pos = Len(rk_papers)
    /\ LET item_keys == [item \in 1..Len(rk_papers) |->
                            bucket_key(rk_scores, rk_papers, item)]
           sorted == [i \in 1..Len(buckets) |->
                         [buckets[i] EXCEPT !.items = sort_descending(<<>>, @, item_keys)]]
           source_keys == [i \in 1..Len(sorted) |-> source_key(rk_scores, sorted[i])]
           order == sort_descending(<<>>, [i \in 1..Len(sorted) |-> i], source_keys)
       IN  /\ buckets' = sorted
           /\ source_order' = [i \in 1..Len(order) |-> sorted[order[i]].source]
    /\ rk_pc' = "rounds"
    /\ UNCHANGED <<notRank, rk_papers, rk_limit, rk_pos, rk_scores, rk_ranked>>

BucketsEmpty == \A i \in 1..Len(buckets) : buckets[i].items = <<>>

\* One iteration of the while loop that makes progress.
RankRound ==
    /\ rk_pc = "rounds" /\ Len(rk_ranked) < rk_limit /\ ~BucketsEmpty
    /\ LET after == round(source_order, buckets, rk_ranked, rk_limit)
       IN  buckets' = after.buckets /\ rk_ranked' = after.ranked
    /\ UNCHANGED <<notRank, rk_papers, rk_limit, rk_pc, rk_pos, rk_scores, source_order>>

\* The while loop ends, at the limit or after a pass without progress.
RankReturn ==
    /\ rk_pc = "rounds" /\ (Len(rk_ranked) >= rk_limit \/ BucketsEmpty)
    /\ rk_pc' = "done"
    /\ UNCHANGED <<notRank, rk_papers, rk_limit, rk_pos, rk_scores, buckets, source_order,
                   rk_ranked>>

SemanticScholarName ==
    <<"S", "e", "m", "a", "n", "t", "i", "c", " ", "S", "c", "h", "o", "l", "a", "r">>

\* Papers of three sources and one without source, with and without
\* citations, year, abstract and PDF link.
RankShapes ==
    { [source |-> OpenAlexName, citationCount |-> 120, year |-> current_year,
       abstract |-> <<"A">>, pdfUrl |-> <<"u">>],
      [source |-> OpenAlexName, citationCount |-> 5, year |-> 0,
       abstract |-> <<>>, pdfUrl |-> <<>>],
      [source |-> CrossrefName, citationCount |-> 5, year |-> current_year - 10,
       abstract |-> <<"C">>, pdfUrl |-> <<>>],
      [source |-> SemanticScholarName, citationCount |-> 120, year |-> 0,
       abstract |-> <<" ">>, pdfUrl |-> <<"u">>],
      [source |-> <<>>, citationCount |-> 0, year |-> current_year - 50,
       abstract |-> <<>>, pdfUrl |-> <<>>] }

\* Lists of 0..MaxCandidates + 1 papers, ranked as attach_rank ranks the
\* results of each source, and a limit as the handler clamps it (at least 1).
RankInit ==
    /\ \E n \in 0..(MaxCandidates + 1) :
          \E shapes \in [1..n -> RankShapes] :
             rk_papers = [i \in 1..n |->
                [source |-> shapes[i].source, citationCount |-> shapes[i].citationCount,
                 year |-> shapes[i].year, abstract |-> shapes[i].abstract,
                 pdfUrl |-> shapes[i].pdfUrl, rank |-> i - 1,
                 sourceRank |-> Cardinality({ j \in 1..(i - 1) :
                                                shapes[j].source = shapes[i].source })]]
    /\ rk_limit \in 1..(MaxCandidates + 1)
    /\ rk_pc = "start" /\ rk_pos = 0 /\ rk_scores = <<>> /\ buckets = <<>>
    /\ source_order = <<>> /\ rk_ranked = <<>>

-----------------------------------------------------------------------------
(* Idle values of the components a specification does not run *)

MergeIdle ==
    /\ raws = <<>> /\ perm = <<>> /\ mpos = 0 /\ selected = <<>> /\ selectedP = <<>>

CiteIdle ==
    /\ matches = <<>> /\ cpc = "idle" /\ cpos = 1 /\ references = <<>>
    /\ paper_to_citation = <<>> /\ used_chunks = <<>> /\ context_parts = <<>>
    /\ total_chars = 0 /\ halted = FALSE /\ context_len = 0

RerankIdle ==
    /\ question = <<>> /\ rmatches = <<>> /\ top_k = 1 /\ rpc = "idle"
    /\ ranked = <<>> /\ reranked = <<>>

LambdaIdle ==
    /\ event = [httpMethod |-> "POST", body_is_json |-> TRUE, action |-> <<>>,
                question |-> <<>>, papers |-> <<>>]
    /\ environ = [OPENAI_API_KEY |-> TRUE, PINECONE_INDEX_HOST |-> TRUE,
                  PINECONE_API_KEY |-> TRUE]
    /\ lpc = "idle" /\ route = <<>> /\ matches_found = FALSE
    /\ response = NoResponse

ReingestIdle ==
    /\ pass_no = 1 /\ first_store = {}

RemergeIdle == again = <<>> /\ apos = 0

DiscoverIdle ==
    /\ sources = <<>> /\ dmax = 0 /\ dclock = 0 /\ dpc = "done" /\ discovered = <<>>
    /\ dbudget_hit = FALSE /\ queried_at = <<>> /\ returned_by = <<>> /\ dresult = <<>>

DedupIdle == dd_papers = <<>> /\ dd_pos = 0 /\ by_key = <<>>

RankIdle ==
    /\ rk_papers = <<>> /\ rk_limit = 0 /\ rk_pc = "done" /\ rk_pos = 0 /\ rk_scores = <<>>
    /\ buckets = <<>> /\ source_order = <<>> /\ rk_ranked = <<>>

-----------------------------------------------------------------------------
(* Specifications *)

Init == IngestInit /\ MergeIdle /\ CiteIdle /\ RerankIdle /\ ChunkIdle /\ SectionsIdle /\ HandleIdle /\ LambdaIdle /\ ReingestIdle /\ RemergeIdle /\ DiscoverIdle /\ DedupIdle /\ RankIdle
Spec == Init /\ [][Next]_vars

InitMerge == MergeInit /\ IngestIdle /\ CiteIdle /\ RerankIdle /\ ChunkIdle /\ SectionsIdle /\ HandleIdle /\ LambdaIdle /\ ReingestIdle /\ RemergeIdle /\ DiscoverIdle /\ DedupIdle /\ RankIdle
NextMerge == MergeStep
SpecMerge == InitMerge /\ [][NextMerge]_vars

InitCite == CiteInit /\ IngestIdle /\ MergeIdle /\ RerankIdle /\ ChunkIdle /\ SectionsIdle /\ HandleIdle /\ LambdaIdle /\ ReingestIdle /\ RemergeIdle /\ DiscoverIdle /\ DedupIdle /\ RankIdle
NextCite ==
    \/ RefStep
    \/ StartContext
    \/ CtxStep
    \/ ReturnContext
SpecCite == InitCite /\ [][NextCite]_vars

InitRerank == RerankInit /\ IngestIdle /\ MergeIdle /\ CiteIdle /\ ChunkIdle /\ SectionsIdle /\ HandleIdle /\ LambdaIdle /\ ReingestIdle /\ RemergeIdle /\ DiscoverIdle /\ DedupIdle /\ RankIdle
NextRerank ==
    \/ ScoreStep
    \/ SortAndReturn
SpecRerank == InitRerank /\ [][NextRerank]_vars

InitChunk == ChunkInit /\ IngestIdle /\ MergeIdle /\ CiteIdle /\ RerankIdle /\ SectionsIdle /\ HandleIdle /\ LambdaIdle /\ ReingestIdle /\ RemergeIdle /\ DiscoverIdle /\ DedupIdle /\ RankIdle
NextChunk == ChunkCall
SpecChunk == InitChunk /\ [][NextChunk]_vars

InitSections == SectionsInit /\ IngestIdle /\ MergeIdle /\ CiteIdle /\ RerankIdle /\ ChunkIdle /\ HandleIdle /\ LambdaIdle /\ ReingestIdle /\ RemergeIdle /\ DiscoverIdle /\ DedupIdle /\ RankIdle
NextSections == SplitCall
SpecSections == InitSections /\ [][NextSections]_vars

InitHandle == HandleInit /\ IngestIdle /\ MergeIdle /\ CiteIdle /\ RerankIdle /\ ChunkIdle /\ SectionsIdle /\ LambdaIdle /\ ReingestIdle /\ RemergeIdle /\ DiscoverIdle /\ DedupIdle /\ RankIdle
NextHandle ==
    \/ HandleMerge
    \/ HandleSelect
    \/ DeferAtEntry
    \/ BeginPaper
    \/ NoPdf
    \/ SkipPdf
    \/ ExtractPdf
    \/ ChunkStep
    \/ EmbedStep
    \/ UpsertStep
    \/ ReturnStats
    \/ HandleReturn
SpecHandle == InitHandle /\ [][NextHandle]_vars

InitLambda == LambdaInit /\ IngestIdle /\ MergeIdle /\ CiteIdle /\ RerankIdle /\ ChunkIdle /\ SectionsIdle /\ HandleIdle /\ ReingestIdle /\ RemergeIdle /\ DiscoverIdle /\ DedupIdle /\ RankIdle
NextLambda ==
    \/ Preflight
    \/ RouteIngest
    \/ RouteAsk
    \/ RouteInsightsOrGaps
    \/ RouteInvalid
    \/ EmbedQuestion
    \/ QueryIndex
    \/ AskAnswer
    \/ InsightsAnswer
    \/ GapsAnswer
SpecLambda == InitLambda /\ [][NextLambda]_vars

InitReingest == ReingestInit /\ MergeIdle /\ CiteIdle /\ RerankIdle /\ ChunkIdle /\ SectionsIdle /\ HandleIdle /\ LambdaIdle /\ RemergeIdle /\ DiscoverIdle /\ DedupIdle /\ RankIdle
NextReingest ==
    \/ BeginPaper
    \/ NoPdf
    \/ ChunkStep
    \/ EmbedStep
    \/ UpsertStep
    \/ ReturnStats
    \/ Reingest
SpecReingest == InitReingest /\ [][NextReingest]_vars

InitDefer == DeferInit /\ MergeIdle /\ CiteIdle /\ RerankIdle /\ ChunkIdle /\ SectionsIdle /\ HandleIdle /\ LambdaIdle /\ ReingestIdle /\ RemergeIdle /\ DiscoverIdle /\ DedupIdle /\ RankIdle
NextDefer ==
    \/ DeferAtEntry
    \/ BeginPaper
    \/ NoPdf
    \/ SkipPdf
    \/ ExtractPdf
    \/ ChunkStep
    \/ EmbedStep
    \/ UpsertStep
    \/ ReturnStats
SpecDefer == InitDefer /\ [][NextDefer]_vars

InitRemerge == RemergeInit /\ IngestIdle /\ CiteIdle /\ RerankIdle /\ ChunkIdle /\ SectionsIdle /\ HandleIdle /\ LambdaIdle /\ ReingestIdle /\ DiscoverIdle /\ DedupIdle /\ RankIdle
NextRemerge ==
    \/ MergeStep
    \/ RemergeStep
SpecRemerge == InitRemerge /\ [][NextRemerge]_vars

InitDiscover == DiscoverInit /\ IngestIdle /\ MergeIdle /\ CiteIdle /\ RerankIdle /\ ChunkIdle /\ SectionsIdle /\ HandleIdle /\ LambdaIdle /\ ReingestIdle /\ RemergeIdle /\ DedupIdle /\ RankIdle
NextDiscover ==
    \/ DiscoverOpenAlex
    \/ DiscoverSemanticScholar
    \/ DiscoverCrossref
    \/ DiscoverReturn
SpecDiscover == InitDiscover /\ [][NextDiscover]_vars

InitDedup == DedupInit /\ IngestIdle /\ MergeIdle /\ CiteIdle /\ RerankIdle /\ ChunkIdle /\ SectionsIdle /\ HandleIdle /\ LambdaIdle /\ ReingestIdle /\ RemergeIdle /\ DiscoverIdle /\ RankIdle
NextDedup == DedupStep
SpecDedup == InitDedup /\ [][NextDedup]_vars

InitRank == RankInit /\ IngestIdle /\ MergeIdle /\ CiteIdle /\ RerankIdle /\ ChunkIdle /\ SectionsIdle /\ HandleIdle /\ LambdaIdle /\ ReingestIdle /\ RemergeIdle /\ DiscoverIdle /\ DedupIdle
NextRank ==
    \/ RankNothing
    \/ ScorePaper
    \/ SortBuckets
    \/ RankRound
    \/ RankReturn
SpecRank == InitRank /\ [][NextRank]_vars

-----------------------------------------------------------------------------
(* Claims about ingest_papers *)

Count(seq, pid) == Cardinality({ k \in 1..Len(seq) : seq[k].paperId = pid })
IsIngested(pid) == \E v \in store : v[1] = pid
Returned == pc = "done"

\* C1: after ingest_papers returns, every input paper is accounted for exactly
\* once (counted as ingested, or one entry in skippedPapers, or one entry in
\* failedPapers), so ingestedPapers + |skippedPapers| + |failedPapers| is the
\* number of input papers.
C1_AccountedExactlyOnce ==
    Returned =>
        /\ \A i \in 1..Len(papers) :
              (IF IsIngested(PaperIdAt(i)) THEN 1 ELSE 0)
                  + Count(skipped, PaperIdAt(i)) + Count(failed, PaperIdAt(i)) = 1
        /\ ingested_papers + Len(skipped) + Len(failed) = Len(papers)

\* What does hold: every input paper is accounted for at least once, and a
\* paper is listed twice only through the PDF checkpoint's extra entry.
IngestAccountedAtLeastOnce ==
    Returned =>
        /\ \A i \in 1..Len(papers) :
              /\ (IF IsIngested(PaperIdAt(i)) THEN 1 ELSE 0)
                    + Count(skipped, PaperIdAt(i)) + Count(failed, PaperIdAt(i)) >= 1
              /\ (IF IsIngested(PaperIdAt(i)) THEN 1 ELSE 0) + Count(failed, PaperIdAt(i))
                    + Cardinality({ k \in 1..Len(skipped) :
                                      /\ skipped[k].paperId = PaperIdAt(i)
                                      /\ skipped[k].reason # REASON_PDF }) = 1
        /\ ingested_papers = Cardinality({ i \in 1..Len(papers) : IsIngested(PaperIdAt(i)) })

\* C2: if the budget runs out before all papers are processed (some paper is
\* reached at loop entry with the budget spent), the call still returns a
\* normal result, with timedOut = true and a skippedPapers entry with a
\* non-empty reason for every paper neither ingested nor failed.
C2_TimeoutStillReturns ==
    /\ budget_hit_at # {} => pc # "raised"
    /\ (Returned /\ budget_hit_at # {}) =>
          /\ timed_out
          /\ \A i \in 1..Len(papers) :
                (~IsIngested(PaperIdAt(i)) /\ Count(failed, PaperIdAt(i)) = 0)
                    => \E k \in 1..Len(skipped) :
                          skipped[k].paperId = PaperIdAt(i) /\ skipped[k].reason # ""

\* The part of C2 that holds: a call that does return reports the timeout.
IngestTimeoutReportedOnReturn ==
    (Returned /\ budget_hit_at # {}) =>
          /\ timed_out
          /\ \A i \in 1..Len(papers) :
                (~IsIngested(PaperIdAt(i)) /\ Count(failed, PaperIdAt(i)) = 0)
                    => \E k \in 1..Len(skipped) :
                          skipped[k].paperId = PaperIdAt(i) /\ skipped[k].reason # ""

-----------------------------------------------------------------------------
(* Claims about merge_papers *)

\* C3: merging a list and merging a permutation of it yield the same set of
\* merge keys and, for each merge key, a surviving paper with the same field
\* values.
C3_MergeOrderIndependent ==
    MergeDone =>
        /\ Keys(selected) = Keys(selectedP)
        /\ \A k \in Keys(selected) : Lookup(selected, k) = Lookup(selectedP, k)

\* What does hold: the set of merge keys does not depend on the order.
MergeKeysOrderIndependent == MergeDone => Keys(selected) = Keys(selectedP)

\* C4: in every comparison of a new record with the existing record of its
\* merge key, for each of abstract, pdfUrl, doi, url and venue: when the loser
\* has a non-empty value and the winner an empty one, the surviving paper
\* carries the loser's value.
C4_LoserFieldsKept ==
    [][ mpos < Len(raws) =>
          LET p == normalize_paper(raws[mpos + 1])
              k == key_for(p)
          IN  HasKey(selected, k) =>
                LET existing == Lookup(selected, k)
                    newWins == TupleGt(score(p), score(existing))
                    winner == IF newWins THEN p ELSE existing
                    loser == IF newWins THEN existing ELSE p
                IN  \A i \in 1..Len(InfoFields) :
                       (loser[InfoFields[i]] # <<>> /\ winner[InfoFields[i]] = <<>>)
                          => Lookup(selected', k)[InfoFields[i]] = loser[InfoFields[i]]
      ]_vars

\* What does hold: the back-fill when the existing record wins.
MergeBackfillWhenExistingWins ==
    [][ mpos < Len(raws) =>
          LET p == normalize_paper(raws[mpos + 1])
              k == key_for(p)
          IN  (HasKey(selected, k) /\ ~TupleGt(score(p), score(Lookup(selected, k)))) =>
                \A i \in 1..Len(InfoFields) :
                   (p[InfoFields[i]] # <<>> /\ Lookup(selected, k)[InfoFields[i]] = <<>>)
                      => Lookup(selected', k)[InfoFields[i]] = p[InfoFields[i]]
      ]_vars

-----------------------------------------------------------------------------
(* Claims about build_references and build_context *)

RefsBuilt == cpc \in {"ctx", "done"}
MatchKey(i) == _paper_key(matches[i].metadata)
\* position of the first match with the paper key of match i
FirstOf(i) == CHOOSE j \in 1..i : MatchKey(j) = MatchKey(i) /\ \A q \in 1..(j - 1) : MatchKey(q) # MatchKey(i)

\* C5: build_references numbers the paper keys 1, 2, ..., n in order of first
\* appearance in the ranked list: the numbers are unique per key, increase
\* strictly along the references list, and every match of one paper key maps
\* to the same number.
C5_CitationNumbersByFirstAppearance ==
    RefsBuilt =>
        /\ Len(references) = Cardinality({ MatchKey(i) : i \in 1..Len(matches) })
        /\ \A r \in 1..Len(references) : references[r].citationNumber = r
        /\ DOMAIN paper_to_citation = { MatchKey(i) : i \in 1..Len(matches) }
        /\ \A i \in 1..Len(matches) :
              paper_to_citation[MatchKey(i)]
                 = Cardinality({ MatchKey(q) : q \in 1..(FirstOf(i) - 1) }) + 1
        /\ \A i, j \in 1..Len(matches) :
              (paper_to_citation[MatchKey(i)] = paper_to_citation[MatchKey(j)])
                 <=> (MatchKey(i) = MatchKey(j))

\* Two matches of one paper, after a match of another paper, have been
\* numbered.
C5_Witness ==
    /\ RefsBuilt
    /\ \E i, j \in 1..Len(matches) :
          i < j /\ MatchKey(i) = MatchKey(j) /\ paper_to_citation[MatchKey(i)] = 2

\* C6: two matches whose metadata carry the same non-empty DOI resolve to the
\* same citationNumber, whatever their paperId and title.
C6_SameDoiSameCitation ==
    RefsBuilt =>
        \A i, j \in 1..Len(matches) :
           (matches[i].metadata.doi # <<>> /\ matches[i].metadata.doi = matches[j].metadata.doi)
              => paper_to_citation[MatchKey(i)] = paper_to_citation[MatchKey(j)]

\* What does hold: matches with the same DOI and no paperId share a number.
CiteSameDoiWithoutPaperId ==
    RefsBuilt =>
        \A i, j \in 1..Len(matches) :
           (/\ matches[i].metadata.doi # <<>>
            /\ matches[i].metadata.doi = matches[j].metadata.doi
            /\ clean_text(matches[i].metadata.paperId) = <<>>
            /\ clean_text(matches[j].metadata.paperId) = <<>>)
              => paper_to_citation[MatchKey(i)] = paper_to_citation[MatchKey(j)]

ContextReturned == cpc = "done"

\* C7: the context text returned by build_context never has more than
\* MAX_CONTEXT_CHARS characters.
C7_ContextWithinBudget == ContextReturned => context_len <= MAX_CONTEXT_CHARS

\* What does hold: the blocks alone fit, and the text exceeds the budget by
\* at most the separators between them.
ContextBlocksWithinBudget ==
    /\ total_chars <= MAX_CONTEXT_CHARS
    /\ total_chars = SeqSum(context_parts)
    /\ ContextReturned => context_len <= MAX_CONTEXT_CHARS + Max(Len(context_parts) - 1, 0)

HasText(i) == matches[i].metadata.chunkTextLen > 0
BlockOf(i) == block_len(i, matches[i], MapGet(paper_to_citation, MatchKey(i)))
\* length of the blocks of the matches with text before position i
BlocksBefore(i) == SeqSum([j \in 1..(i - 1) |-> IF HasText(j) THEN BlockOf(j) ELSE 0])
Overflows(i) == HasText(i) /\ BlocksBefore(i) + BlockOf(i) > MAX_CONTEXT_CHARS
\* position of the first match whose block does not fit after all the blocks
\* before it, Len(matches) + 1 if there is none
FirstOverflow ==
    IF \E i \in 1..Len(matches) : Overflows(i)
    THEN CHOOSE i \in 1..Len(matches) : Overflows(i) /\ \A j \in 1..(i - 1) : ~Overflows(j)
    ELSE Len(matches) + 1
RanksWithTextBefore(k) == SelectSeq([i \in 1..Len(matches) |-> i], LAMBDA i : i < k /\ HasText(i))

\* C8: no backfill.  The first match with text whose block would pass the
\* budget ends assembly; it is left out whole and no later match is included.
\* used_chunks is exactly the matches with text before it, in rank order, one
\* entry per block placed in the context, each block whole.
C8_NoBackfill ==
    ContextReturned =>
        /\ [q \in 1..Len(used_chunks) |-> used_chunks[q].rank] = RanksWithTextBefore(FirstOverflow)
        /\ Len(context_parts) = Len(used_chunks)
        /\ \A q \in 1..Len(used_chunks) : context_parts[q] = BlockOf(used_chunks[q].rank)

\* A block overflowed and a later match with text would still have fitted.
C8_Witness ==
    /\ ContextReturned
    /\ \E i, j \in 1..Len(matches) :
          /\ i < j /\ Overflows(i) /\ i = FirstOverflow /\ HasText(j)
          /\ total_chars + BlockOf(j) <= MAX_CONTEXT_CHARS
          /\ used_chunks # <<>>

-----------------------------------------------------------------------------
(* Claims about hybrid_rerank_matches, checked under SpecRerank *)

Reranked == rpc = "done"
InputPos(row) == CHOOSE i \in 1..Len(rmatches) : rmatches[i].id = row.id
SameScore(a, b) == a.hybridScore.n * b.hybridScore.d = b.hybridScore.n * a.hybridScore.d

\* C9: hybrid_rerank_matches returns exactly min(top_k, number of matches)
\* of the input matches, ordered by non-increasing hybridScore, and any two
\* returned matches with equal hybridScore keep their relative order from
\* the input list.
C9_RerankTopKStable ==
    Reranked =>
        /\ Len(reranked) = Min(top_k, Len(rmatches))
        /\ \A i \in 1..Len(reranked) :
              \E j \in 1..Len(rmatches) :
                 /\ rmatches[j].id = reranked[i].id
                 /\ rmatches[j].score = reranked[i].score
                 /\ rmatches[j].metadata = reranked[i].metadata
        /\ \A i, j \in 1..Len(reranked) :
              i < j =>
                 /\ reranked[i].id # reranked[j].id
                 /\ reranked[i].hybridScore.n * reranked[j].hybridScore.d
                       >= reranked[j].hybridScore.n * reranked[i].hybridScore.d
                 /\ SameScore(reranked[i], reranked[j])
                       => InputPos(reranked[i]) < InputPos(reranked[j])

\* A call that cuts the list (top_k below the number of matches), whose
\* input is not already in score order, and that returns two tied matches.
C9_Witness ==
    /\ Reranked
    /\ top_k < Len(rmatches)
    /\ \E i, j \in 1..Len(ranked) :
          i < j /\ FracGt(ranked[j].hybridScore, ranked[i].hybridScore)
    /\ \E i, j \in 1..Len(reranked) : i < j /\ SameScore(reranked[i], reranked[j])

CountOf(meta) == IF meta.citationCount.tag = "int" THEN meta.citationCount.val ELSE 0
LowestScore == SeqMin([i \in 1..Len(rmatches) |-> rmatches[i].score])
HighestScore == SeqMax([i \in 1..Len(rmatches) |-> rmatches[i].score])
SharedTokens(m) ==
    Cardinality(tokenize_for_overlap(question) \cap tokenize_for_overlap(m.metadata.chunkText))
QueryTokens == Cardinality(tokenize_for_overlap(question))

\* the three terms of the formula over the common denominator
\* 100 * span * |query tokens| * 5000, scores in tenths
SpanDen == IF HighestScore = LowestScore THEN 1 ELSE HighestScore - LowestScore
LexDen == IF QueryTokens = 0 THEN 1 ELSE QueryTokens
FormulaNum(m) ==
      70 * (m.score - LowestScore) * LexDen * 5000
    + 25 * SharedTokens(m) * SpanDen * 5000
    + 5 * Min(CountOf(m.metadata), 5000) * SpanDen * LexDen
FormulaDen == 100 * SpanDen * LexDen * 5000

ExampleCall ==
    /\ Len(rmatches) = 2
    /\ rmatches[1].score = 9 /\ rmatches[2].score = 1
    /\ \A i \in 1..2 :
          /\ CountOf(rmatches[i].metadata) = 0
          /\ 2 * SharedTokens(rmatches[i]) = QueryTokens /\ QueryTokens > 0

\* C10: every match is given hybridScore = 0.70*semantic + 0.25*lexical +
\* 0.05*citation, with semantic = (score - min)/max(max - min, 1e-8) over
\* the candidate set, lexical = |query tokens intersect chunk tokens| /
\* |query tokens| (0 if either token set is empty) and citation =
\* min(citationCount, 5000)/5000; two matches with raw scores 0.9 and 0.1,
\* lexical overlap 0.5 and citationCount 0 score 0.825 and 0.125.
C10_HybridScoreFormula ==
    /\ \A i \in 1..Len(ranked) :
          /\ ranked[i].hybridScore.d > 0
          /\ ranked[i].hybridScore.n * FormulaDen
                = FormulaNum(rmatches[i]) * ranked[i].hybridScore.d
    /\ (ExampleCall /\ Len(ranked) = 2) =>
          /\ 1000 * ranked[1].hybridScore.n = 825 * ranked[1].hybridScore.d
          /\ 1000 * ranked[2].hybridScore.n = 125 * ranked[2].hybridScore.d

\* The worked example has been scored and returned, in a call where the
\* citation cap and the empty-token case do not apply.
C10_Witness ==
    /\ ExampleCall
    /\ Reranked
    /\ Len(reranked) = 2

-----------------------------------------------------------------------------
(* Claims about chunk_text, checked under SpecChunk *)

SourceWords == SplitSpace(clean_text(ctext))
WordCount == IF clean_text(ctext) = <<>> THEN 0 ELSE Len(SourceWords)
Step == Max(1, cparams.size - cparams.overlap)
\* number of windows that start before the first one whose right edge
\* reaches the end of the text
FullWindows ==
    CHOOSE k \in 0..WordCount :
        /\ k * Step + cparams.size >= WordCount
        /\ \A j \in 0..(k - 1) : j * Step + cparams.size < WordCount
LastLen == WordCount - FullWindows * Step
\* the words of the window at 0-based offset o
Window(o) ==
    Join(SubSeq(SourceWords, o + 1, Min(o + cparams.size, WordCount)), <<" ">>)
ExpectedOffsets ==
    [k \in 1..(FullWindows + (IF LastLen >= cparams.min THEN 1 ELSE 0)) |-> (k - 1) * Step]
ExpectedChunks == [k \in 1..Len(ExpectedOffsets) |-> Window(ExpectedOffsets[k])]

\* C11: for a cleaned text of W > chunk_size_words words chunk_text emits
\* the windows of consecutive source words at offsets 0, step, 2*step, ...
\* (step = max(1, chunk_size_words - overlap_words)), each of at most
\* chunk_size_words words, stops after the first window whose right edge
\* reaches W, and drops a trailing window of fewer than min_words words
\* (W = 12, size 5, overlap 2, min 1: offsets 0, 3, 6, 9); for
\* 1 <= W <= chunk_size_words it returns the whole text as one chunk.
C11_ChunkWindows ==
    cdone =>
        /\ WordCount > cparams.size =>
              /\ chunk_list = ExpectedChunks
              /\ \A k \in 1..Len(chunk_list) : Len(SplitSpace(chunk_list[k])) <= cparams.size
        /\ (WordCount = 12 /\ cparams = [size |-> 5, overlap |-> 2, min |-> 1]) =>
              /\ ExpectedOffsets = <<0, 3, 6, 9>>
              /\ Len(chunk_list) = 4
        /\ (WordCount >= 1 /\ WordCount <= cparams.size) => chunk_list = <<clean_text(ctext)>>

\* The same statement for calls whose min_words does not exceed
\* chunk_size_words, where every full window is long enough to be kept.
ChunkWindowsWhenMinFits ==
    (cdone /\ cparams.min <= cparams.size) => C11_ChunkWindows

\* A text longer than one window loses every chunk when min_words exceeds
\* chunk_size_words.
ChunkNothingWhenMinExceedsSize ==
    (cdone /\ WordCount > cparams.size /\ cparams.min > cparams.size) => chunk_list = <<>>

-----------------------------------------------------------------------------
(* Claims about split_sections, checked under SpecSections *)

RECURSIVE Concat(_)
Concat(seqs) == IF seqs = <<>> THEN <<>> ELSE Head(seqs) \o Concat(Tail(seqs))
SectionTexts == [i \in 1..Len(section_list) |-> section_list[i].text]
HeadingOffsets ==
    { pos \in 0..(Len(clean_text(stext)) - 1) :
         \E k \in 1..Len(heading_patterns) : PatternAt(clean_text(stext), pos, heading_patterns[k]) }
NoSpaces(s) == SelectSeq(s, LAMBDA c : c # " ")

\* C12: the sections returned by split_sections cover disjoint,
\* consecutive regions of the cleaned text, and concatenating their texts
\* in order reconstructs the cleaned text exactly; when no heading pattern
\* matches, the result is a single section labeled body that holds the
\* whole cleaned text.
C12_SectionsReconstructText ==
    sdone =>
        /\ Concat(SectionTexts) = clean_text(stext)
        /\ (HeadingOffsets = {} /\ clean_text(stext) # <<>>) =>
              section_list = << [section |-> "body", text |-> clean_text(stext)] >>

\* The section texts are consecutive pieces of the cleaned text up to the
\* white space at their ends: they reconstruct it once spaces are ignored,
\* and a text without a heading comes back whole.
SectionsReconstructUpToSpaces ==
    sdone =>
        /\ NoSpaces(Concat(SectionTexts)) = NoSpaces(clean_text(stext))
        /\ (HeadingOffsets = {} /\ clean_text(stext) # <<>>) =>
              section_list = << [section |-> "body", text |-> clean_text(stext)] >>

HasWordBefore(first, second) ==
    LET words == SplitSpace(clean_text(stext))
    IN  \E i, j \in 1..Len(words) : i < j /\ words[i] = first /\ words[j] = second
HasSection(label) == \E i \in 1..Len(section_list) : section_list[i].section = label
WordIntroduction == <<"I", "n", "t", "r", "o", "d", "u", "c", "t", "i", "o", "n">>
WordResults == <<"R", "e", "s", "u", "l", "t", "s">>

\* C13: for any text that contains the word Introduction and, later, the
\* word Results, split_sections returns at least one section labeled
\* introduction and one section labeled results.
C13_IntroductionAndResultsLabeled ==
    (sdone /\ HasWordBefore(WordIntroduction, WordResults)) =>
        HasSection("introduction") /\ HasSection("results")

\* The same holds whenever some Introduction that precedes a Results is
\* not the first word of the text, and the results section is always there.
SectionsLabeledUnlessHeadingOpensText ==
    (sdone /\ HasWordBefore(WordIntroduction, WordResults)) =>
        /\ HasSection("results")
        /\ (\E i, j \in 1..Len(SplitSpace(clean_text(stext))) :
               /\ 1 < i /\ i < j
               /\ SplitSpace(clean_text(stext))[i] = WordIntroduction
               /\ SplitSpace(clean_text(stext))[j] = WordResults)
              => HasSection("introduction")

-----------------------------------------------------------------------------
(* Claims about handle_ingest, checked under SpecHandle *)

IngestCalled == hpc \in {"ingest", "returned"} /\ all_candidates # <<>>
HandleReturned == hpc = "returned" /\ hresult.kind = "stats"
\* the merged candidates that were not handed to ingest_papers
BeyondCap == { all_candidates[i].paperId : i \in (Len(papers) + 1)..Len(all_candidates) }
EntriesOf(list, pid) == { k \in 1..Len(list) : list[k].paperId = pid }

\* C14: handle_ingest passes at most maxCandidates merged candidates (and,
\* when a query is present, at most limit) to ingest_papers; every other
\* merged candidate is never processed (not chunked, embedded or upserted)
\* and appears exactly once in skippedPapers with the candidate-cap reason,
\* so selectedCandidateCount + truncatedCandidates = candidateCount.
C14_CandidateCap ==
    /\ IngestCalled =>
          /\ Len(papers) <= max_candidates_of(hbody)
          /\ hbody.query => Len(papers) <= limit_of(hbody)
          /\ \A i \in 1..Len(papers) : papers[i].paperId = all_candidates[i].paperId
          /\ \A pid \in BeyondCap :
                /\ \A i \in 1..Len(papers) : papers[i].paperId # pid
                /\ paper.paperId # pid
                /\ \A v \in store : v[1] # pid
                /\ EntriesOf(skipped, pid) = {} /\ EntriesOf(failed, pid) = {}
    /\ HandleReturned =>
          /\ \A pid \in BeyondCap :
                /\ Cardinality(EntriesOf(hresult.skippedPapers, pid)) = 1
                /\ \A k \in EntriesOf(hresult.skippedPapers, pid) :
                      hresult.skippedPapers[k].reason = REASON_CAP
          /\ \A k \in 1..Len(hresult.skippedPapers) :
                hresult.skippedPapers[k].reason = REASON_CAP
                   => hresult.skippedPapers[k].paperId \in BeyondCap
          /\ hresult.selectedCandidateCount = Len(papers)
          /\ hresult.selectedCandidateCount + hresult.truncatedCandidates
                = hresult.candidateCount
          /\ hresult.candidateCount = Len(all_candidates)

\* A query-driven request whose limit, not maxCandidates, cuts the list:
\* a candidate was ingested and another was deferred by the cap.
C14_Witness ==
    /\ HandleReturned
    /\ hbody.query
    /\ limit_of(hbody) < Min(Len(all_candidates), max_candidates_of(hbody))
    /\ hresult.truncatedCandidates >= 1
    /\ hresult.ingestedPapers >= 1

WithPdf == { i \in 1..Len(papers) : papers[i].pdfUrl # <<>> }
Allowed == { i \in 1..Len(papers) : papers[i].allowPdfExtract }

\* C15: in a query-driven ingest with PDF extraction requested, the
\* candidates handed to ingest_papers with allowPdfExtract = true number
\* exactly min(queryPdfPaperLimit, number of selected candidates with a
\* pdfUrl); each of them has a pdfUrl and they are the first such
\* candidates in priority order; effectivePdfExtraction is true iff that
\* number is positive and queryPdfExtractionSelected reports it.
C15_QueryPdfLimit ==
    (IngestCalled /\ hbody.query /\ hbody.extractPdfText) =>
        /\ Cardinality(Allowed) = Min(query_pdf_paper_limit_of(hbody), Cardinality(WithPdf))
        /\ Allowed \subseteq WithPdf
        /\ \A i \in Allowed, j \in WithPdf \ Allowed : i < j
        /\ \A i, j \in 1..Len(papers) :
              i < j => TupleGe5(paper_ingest_priority(papers[i]),
                                paper_ingest_priority(papers[j]), 1)
        /\ extract_pdf = (Cardinality(Allowed) > 0)
        /\ HandleReturned =>
              /\ hresult.effectivePdfExtraction = (Cardinality(Allowed) > 0)
              /\ hresult.queryPdfExtractionSelected = Cardinality(Allowed)

\* The limit binds: two selected candidates have a pdfUrl, one of them is
\* allowed, and a candidate without pdfUrl was selected ahead of neither.
C15_Witness ==
    /\ HandleReturned /\ hbody.query /\ hbody.extractPdfText
    /\ Cardinality(WithPdf) = 2
    /\ Cardinality(Allowed) = 1
    /\ hresult.effectivePdfExtraction

-----------------------------------------------------------------------------
(* Claims about failures inside ingest_papers, checked under Spec *)

IngestedIds == { v[1] : v \in store }
MismatchEntry(pid) ==
    \E k \in 1..Len(failed) :
        failed[k].paperId = pid /\ failed[k].error = "Embedding count mismatch"

\* C16: when the embedding service returns a number of vectors different
\* from a paper's chunk count, ingest_papers records that paper in
\* failedPapers, upserts no vector for it, does not count it in
\* ingestedPapers or ingestedChunks, and goes on to process the following
\* papers.
C16_EmbeddingMismatchFailsPaper ==
    /\ [](/\ \A i \in mismatch_at :
                /\ MismatchEntry(papers[i].paperId)
                /\ papers[i].paperId \notin IngestedIds
          /\ ingested_papers = Cardinality(IngestedIds)
          /\ ingested_chunks = Cardinality(store))
    /\ [][mismatch_at' # mismatch_at =>
             /\ store' = store
             /\ ingested_papers' = ingested_papers
             /\ ingested_chunks' = ingested_chunks
             /\ Len(failed') = Len(failed) + 1
             /\ pc' = "loop" /\ idx' = idx + 1]_vars

\* A returned call in which a paper failed on the vector count and the
\* paper after it was ingested.
C16_Witness ==
    /\ Returned
    /\ \E i \in mismatch_at :
          /\ i < Len(papers)
          /\ papers[i + 1].paperId \in IngestedIds

\* C17: a failure while processing one paper (in its normalization, PDF
\* extraction, chunking, embedding or upsert) never aborts sibling papers:
\* ingest_papers returns normally, the failing paper is recorded in a
\* per-paper entry, and every other paper of the list is processed as if
\* the failure had not happened.
C17_FailureNeverAbortsSiblings ==
    /\ [](pc # "raised")
    /\ [](Returned => \A i \in 1..Len(papers) :
                         \/ papers[i].paperId \in IngestedIds
                         \/ EntriesOf(skipped, papers[i].paperId) # {}
                         \/ EntriesOf(failed, papers[i].paperId) # {})
    /\ [][Len(failed') > Len(failed) =>
             /\ failed'[Len(failed')].paperId = paper.paperId
             /\ store' = store /\ skipped' = skipped
             /\ ingested_papers' = ingested_papers /\ ingested_chunks' = ingested_chunks
             /\ pc' = "loop" /\ idx' = idx + 1]_vars

\* The same statement for failures raised inside the try block (embedding
\* and upsert): the paper gets its entry in failedPapers, nothing else
\* changes and the loop goes on with the next paper.
IngestFailureInsideTryIsolated ==
    [][Len(failed') > Len(failed) =>
          /\ failed'[Len(failed')].paperId = paper.paperId
          /\ store' = store /\ skipped' = skipped
          /\ ingested_papers' = ingested_papers /\ ingested_chunks' = ingested_chunks
          /\ pc' = "loop" /\ idx' = idx + 1]_vars

\* The paperId normalize_paper gives a raw record, and the one it gives its
\* own result when that is normalized again (merge_papers normalizes a
\* record, ingest_papers normalizes the merged record once more).
NormalizedId(raw) == normalize_paper(raw).paperId
RenormalizedId(raw) == normalize_paper(normalize_paper(raw)).paperId
NormalizeInputs == MergeShapes \cup HandleShapes \cup { papers[i] : i \in 1..Len(papers) }

\* The records ingest_papers has called normalize_paper on so far.
NormalizeCalled ==
    { papers[i] : i \in { j \in 1..Len(papers) : j < idx \/ (j = idx /\ pc # "loop") } }

\* C18: normalize_paper has no error condition: for every raw record,
\* whatever the types and values of its fields (including a missing, null
\* or non-numeric citationCount), it returns a Paper with a non-empty
\* paperId, and normalizing the same raw record again returns the same
\* paperId.
C18_NormalizePaperNeverFails ==
    /\ pc # "raised"
    /\ \A raw \in NormalizeCalled :
          /\ ~normalize_raises(raw)
          /\ NormalizedId(raw) # <<>>
          /\ RenormalizedId(raw) = NormalizedId(raw)

\* What holds of normalize_paper: whenever it returns, the paperId is
\* non-empty and normalizing again gives the same one; and the calls that
\* raised are those on a record whose citationCount int() rejects.
NormalizeIdNonEmptyAndStable ==
    /\ \A raw \in NormalizeInputs :
          ~normalize_raises(raw) =>
              /\ NormalizedId(raw) # <<>>
              /\ RenormalizedId(raw) = NormalizedId(raw)
    /\ pc = "raised" => idx \in 1..Len(papers) /\ normalize_raises(papers[idx])

-----------------------------------------------------------------------------
(* Claims about lambda_handler, checked under SpecLambda *)

Responded == lpc = "done"
RequestBody == parse_event_body(event)

\* An ask, insights or gaps request with valid input.
ValidQuestionRequest ==
    /\ event.httpMethod # "OPTIONS"
    /\ \/ action_of(event) = ACTION_ASK /\ clean_text(RequestBody.question) # <<>>
       \/ action_of(event) \in {ACTION_INSIGHTS, ACTION_GAPS}

ClientInputErrors == {ERR_QUESTION, ERR_ACTION, ERR_INT_LITERAL}
ConfigurationErrors == {ERR_OPENAI_KEY, ERR_PINECONE_HOST, ERR_PINECONE_KEY}
UpstreamErrors == {ERR_EMBED_HTTP, ERR_EMBED_EMPTY, ERR_NOT_JSON, ERR_QUERY_HTTP, ERR_CHAT_HTTP}

\* C19: when the OpenAI API credential is missing, an ask, insights or gaps
\* request with valid input does not fail: lambda_handler returns status 200
\* carrying the deterministic non-AI fallback result (for ask, the
\* extractive fallback answer built from the used chunks) instead of an
\* error response.  Requests that fail for another reason (index
\* configuration, an upstream reply) are left aside.
C19_MissingOpenAiKeyFallsBack ==
    (/\ Responded
     /\ ValidQuestionRequest
     /\ ~environ.OPENAI_API_KEY
     /\ environ.PINECONE_INDEX_HOST /\ environ.PINECONE_API_KEY
     /\ response.error \notin UpstreamErrors)
    => /\ response.statusCode = 200
       /\ response.error = ""
       /\ response.result \in {"fallback", "no_documents"}

\* What the handlers do instead: without the key the question is never
\* embedded, every such request is answered 400 "Missing OPENAI_API_KEY",
\* and a fallback result is only ever sent when the key is set.
MissingOpenAiKeyRejected ==
    /\ (Responded /\ ValidQuestionRequest /\ ~environ.OPENAI_API_KEY)
          => response = create_response(400, ERR_OPENAI_KEY, "")
    /\ response.result = "fallback" => environ.OPENAI_API_KEY

\* C20: lambda_handler maps every outcome to a status: an OPTIONS request
\* gets 200 whatever its body; a request without an action is handled as
\* ask; a request that is handled successfully gets 200; a client input
\* error (empty question for ask, unknown action) gets 400; every other
\* failure gets 500.  In particular 400 is returned only for client input
\* errors.
C20_StatusMapping ==
    Responded =>
        /\ event.httpMethod = "OPTIONS" => response = create_response(200, "", "preflight")
        /\ (event.httpMethod # "OPTIONS" /\ RequestBody.action = <<>>) => route = ACTION_ASK
        /\ response.error = "" => response.statusCode = 200
        /\ response.error \in ClientInputErrors => response.statusCode = 400
        /\ response.error \notin ClientInputErrors \cup {""} => response.statusCode = 500
        /\ response.statusCode = 400 => response.error \in ClientInputErrors

\* The mapping the code implements: by exception class, so that missing
\* configuration and an upstream body that is no JSON, both ValueErrors,
\* are answered 400 like a client input error.
StatusByExceptionClass ==
    Responded =>
        /\ event.httpMethod = "OPTIONS" => response = create_response(200, "", "preflight")
        /\ (event.httpMethod # "OPTIONS" /\ RequestBody.action = <<>>) => route = ACTION_ASK
        /\ response.error = "" <=> response.statusCode = 200
        /\ response.error \in ClientInputErrors \cup ConfigurationErrors \cup {ERR_NOT_JSON}
              <=> response.statusCode = 400
        /\ response.error \in UpstreamErrors \ {ERR_NOT_JSON} <=> response.statusCode = 500

-----------------------------------------------------------------------------
(* Claims about vector ids and re-ingestion, checked under SpecReingest *)

IdsOf(S, pid) == { v \in S : v[1] = pid }
ChunkIds(pid, n) == { <<pid, "::chunk::", i>> : i \in 0..(n - 1) }
InputIds == { papers[i].paperId : i \in 1..Len(papers) }

-----------------------------------------------------------------------------
(* Claims about the text ingest_papers chunks *)

\* sub in text
Contains(text, sub) ==
    \E k \in 1..(Len(text) - Len(sub) + 1) : SubSeq(text, k, k + Len(sub) - 1) = sub

\* A record with empty title, abstract and fullText and with authors, year,
\* venue and DOI.
MetadataOnly(raw) ==
    /\ clean_text(raw.title) = <<>> /\ clean_text(raw.abstract) = <<>>
    /\ clean_text(raw.fullText) = <<>>
    /\ raw.authors # <<>> /\ raw.year > 0
    /\ clean_text(raw.venue) # <<>> /\ clean_text(raw.doi) # <<>>

\* The papers whose loop iteration is over.
Processed == { i \in 1..Len(papers) : i < idx }

FallbackNamesAuthorsYearDoi(raw) ==
    LET p == normalize_paper(raw)
        t == build_metadata_fallback_text(p)
    IN  /\ t # <<>>
        /\ \A k \in 1..Len(p.authors) : Contains(t, p.authors[k])
        /\ Contains(t, DecStr(p.year))
        /\ Contains(t, p.doi)

\* Nothing but the budget or a failed external call (entries in failedPapers)
\* keeps the paper at position i from being ingested.
IngestedUnlessBudgetOrCallFailure(i) ==
    LET pid == papers[i].paperId
    IN  /\ \A k \in EntriesOf(skipped, pid) : skipped[k].reason \in {REASON_ENTRY, REASON_PDF, REASON_EMBED}
        /\ (\A k \in EntriesOf(skipped, pid) : skipped[k].reason = REASON_PDF) /\ EntriesOf(failed, pid) = {}
              => /\ pid \in IngestedIds
                 /\ \E n \in 1..MAX_CHUNKS_PER_PAPER : IdsOf(store, pid) = ChunkIds(pid, n)

\* C22: a paper with empty title, abstract and fullText but populated
\* authors, year, venue and DOI is ingested, not skipped or failed:
\* ingest_papers counts it in ingestedPapers and upserts its chunks, which
\* are built from a non-empty metadata fallback text that contains the
\* author names, the year and the DOI.
C22_MetadataOnlyPaperIngested ==
    \A i \in Processed :
        MetadataOnly(papers[i]) =>
            /\ FallbackNamesAuthorsYearDoi(papers[i])
            /\ IngestedUnlessBudgetOrCallFailure(i)

\* The same for calls whose min_chunk_words does not exceed
\* chunk_size_words.
MetadataOnlyIngestedWhenMinFits ==
    chunk_params.min <= chunk_params.size => C22_MetadataOnlyPaperIngested

-----------------------------------------------------------------------------
(* Claims about deferral, checked under SpecDefer *)

FirstDeferral == CHOOSE i \in budget_hit_at : \A j \in budget_hit_at : i <= j
PositionOf(pid) == CHOOSE i \in 1..Len(papers) : papers[i].paperId = pid

\* C27: in ingest_papers, once one paper is deferred at loop entry because
\* the budget is exhausted, every later paper of the list is deferred too:
\* no PDF fetch, embedding or upsert call is made for any paper after the
\* first loop-entry deferral, so all ingested and failed papers precede it
\* in input order.
C27_DeferralIsFinal ==
    /\ [](budget_hit_at # {} =>
             /\ \A j \in Processed : j >= FirstDeferral => j \in budget_hit_at
             /\ \A j \in budget_hit_at \cap Processed :
                   \E k \in EntriesOf(skipped, papers[j].paperId) : skipped[k].reason = REASON_ENTRY
             /\ \A v \in store : PositionOf(v[1]) < FirstDeferral
             /\ \A k \in 1..Len(failed) : PositionOf(failed[k].paperId) < FirstDeferral
             /\ pc \in {"loop", "done", "raised"})
    /\ [][budget_hit_at # {} =>
             /\ pc' \in {"loop", "done", "raised"}
             /\ clock' = clock /\ store' = store /\ failed' = failed
             /\ ingested_papers' = ingested_papers]_vars

\* A returned call that ingested the first paper and deferred the second
\* and the third at loop entry.
C27_Witness ==
    /\ Returned
    /\ Len(papers) = 3
    /\ budget_hit_at = {2, 3}
    /\ papers[1].paperId \in IngestedIds

-----------------------------------------------------------------------------
(* Claims about the budgets of handle_ingest, checked under SpecHandle *)

\* timeBudgetSeconds as a request may give it: no number, or any integer
\* around the clamp's range 8..28
RequestBudgets == {NonNumeric} \cup { Int_(v) : v \in 0..40 }
AcceptedBudget(value) == clamp_int(value, 24, 8, 28)

\* C26: for every timeBudgetSeconds accepted by handle_ingest (any request
\* value, clamped to 8..28), the discovery sub-budget
\* max(5, min(14, budget // 2)) plus the budget that handle_ingest passes to
\* ingest_papers does not exceed timeBudgetSeconds.
C26_SubBudgetsWithinTimeBudget ==
    /\ IngestCalled =>
          /\ max_seconds = ingest_budget(time_budget_of(hbody))
          /\ discovery_budget_of(hbody) + max_seconds <= time_budget_of(hbody)
    /\ (IngestCalled /\ pc = "loop" /\ idx = 1) =>
          \A value \in RequestBudgets :
              discovery_budget(AcceptedBudget(value)) + ingest_budget(AcceptedBudget(value))
                  <= AcceptedBudget(value)

\* What holds: the two budgets add up to timeBudgetSeconds from 11 seconds
\* on, and to 11 seconds for the budgets 8, 9 and 10.
SubBudgetsAddUpFromEleven ==
    /\ IngestCalled => max_seconds = ingest_budget(time_budget_of(hbody))
    /\ (IngestCalled /\ pc = "loop" /\ idx = 1) =>
          \A value \in RequestBudgets :
              LET t == AcceptedBudget(value)
              IN  /\ t \in 8..28
                  /\ discovery_budget(t) + ingest_budget(t) = Max(t, 11)

\* C29: with the paper_to_citation map that build_references returned for the
\* same match list, every used chunk carries a citationNumber that is not None
\* and is the citationNumber of the reference with the chunk's paper key, so
\* the tag "[?]" is never written and every citation tag names a reference.
ReferenceOf(chunk) ==
    { r \in 1..Len(references) :
        _paper_key(references[r]) = _paper_key(matches[chunk.rank].metadata) }

C29_UsedChunksCiteTheirReference ==
    cpc \in {"ctx", "done"} =>
        \A u \in 1..Len(used_chunks) :
            /\ used_chunks[u].citationNumber # 0
            /\ ReferenceOf(used_chunks[u]) # {}
            /\ \A r \in ReferenceOf(used_chunks[u]) :
                    references[r].citationNumber = used_chunks[u].citationNumber
            /\ context_parts[u] =
                    block_len(used_chunks[u].rank, matches[used_chunks[u].rank],
                              references[CHOOSE r \in ReferenceOf(used_chunks[u]) : TRUE]
                                  .citationNumber)

\* Two chunks of one paper and a chunk of another paper are used, the later
\* paper's chunk citing reference 2.
C29_Witness ==
    /\ cpc = "done" /\ Len(used_chunks) = 3 /\ Len(references) = 2
    /\ used_chunks[1].citationNumber = 1
    /\ used_chunks[2].citationNumber = 2
    /\ used_chunks[3].citationNumber = 1

-----------------------------------------------------------------------------
(* Claims about merge_papers on its own output *)

PapersOf(sel) == [i \in 1..Len(sel) |-> sel[i].paper]

\* C30: the papers merge_papers returns have pairwise distinct merge keys, and
\* merging that output again returns the same papers with the same field
\* values in the same order.
C30_MergeIdempotentOnOutput ==
    RemergeDone =>
        /\ \A i, j \in 1..Len(selected) :
              key_for(selected[i].paper) = key_for(selected[j].paper) => i = j
        /\ PapersOf(again) = PapersOf(selected)

\* The DOI of a normalized record is left as it is by a second normalization.
DoiStable(raw) == normalize_paper(normalize_paper(raw)).doi = normalize_paper(raw).doi

\* What does hold: idempotence for the lists whose DOIs a second
\* normalization leaves alone.
MergeIdempotentOnStableDois ==
    (RemergeDone /\ \A i \in 1..Len(raws) : DoiStable(raws[i])) =>
        /\ \A i, j \in 1..Len(selected) :
              key_for(selected[i].paper) = key_for(selected[j].paper) => i = j
        /\ PapersOf(again) = PapersOf(selected)

\* Two records merged into one paper by the first call, and the second call
\* finished on it.
MergeIdempotentOnStableDois_Witness ==
    /\ RemergeDone /\ Len(raws) = 2 /\ Len(selected) = 1 /\ Len(again) = 1
    /\ \A i \in 1..Len(raws) : DoiStable(raws[i])

-----------------------------------------------------------------------------
(* Claims about discover_papers *)

\* The blocks whose source the caller requested.
RequestedBlocks ==
    { BlockOrder[i] : i \in { j \in 1..Len(BlockOrder) :
                                BlockNames[BlockOrder[j]] \cap wanted(sources) # {} } }

\* The records of the adapters that returned, in the order of the blocks.
RECURSIVE RecordsFrom(_)
RecordsFrom(i) ==
    IF i > Len(BlockOrder) THEN <<>>
    ELSE (IF BlockOrder[i] \in DOMAIN returned_by THEN returned_by[BlockOrder[i]] ELSE <<>>)
         \o RecordsFrom(i + 1)

\* C23: an adapter is called only for a requested source and only while the
\* budget has not elapsed; whatever adapters raise, the call returns the
\* merge of the records of every adapter that was called and returned; and
\* budget_hit is true iff some requested source was not queried (which happens
\* only when the budget had elapsed at its block).
C23_DiscoveryBudgetAndIsolation ==
    /\ \A b \in DOMAIN queried_at :
          /\ b \in RequestedBlocks
          /\ dmax # 0 => queried_at[b] < dmax
    /\ DOMAIN returned_by \subseteq DOMAIN queried_at
    /\ discovered = RecordsFrom(1)
    /\ dpc = "done" =>
          /\ dresult = merge_papers(RecordsFrom(1))
          /\ dbudget_hit <=> (\E b \in RequestedBlocks : b \notin DOMAIN queried_at)
          /\ \A b \in RequestedBlocks :
                b \notin DOMAIN queried_at => (dmax # 0 /\ dclock >= dmax)

\* OpenAlex returned two records, the Semantic Scholar adapter raised and
\* used up the budget, Crossref was not queried, and the call returned the
\* OpenAlex records with budget_hit set.
C23_Witness ==
    /\ dpc = "done" /\ Len(sources) = 3
    /\ DOMAIN queried_at = {"openalex", "semantic_scholar"}
    /\ DOMAIN returned_by = {"openalex"}
    /\ Len(returned_by["openalex"]) = 2 /\ Len(dresult) = 2
    /\ "crossref" \in RequestedBlocks
    /\ dbudget_hit

\* An adapter raised between two that returned, and the result holds the
\* records of both.
DiscoverRaiseBetweenReturns ==
    /\ dpc = "done"
    /\ DOMAIN queried_at = {"openalex", "semantic_scholar", "crossref"}
    /\ DOMAIN returned_by = {"openalex", "crossref"}
    /\ Len(returned_by["openalex"]) = 2 /\ Len(returned_by["crossref"]) = 2
    /\ Len(dresult) = 3 /\ ~dbudget_hit

-----------------------------------------------------------------------------
(* Claims about deduplicate_papers *)

\* The DOI of a record as the comparison takes it, and whether two records
\* are records of one paper: the same DOI or, both without a DOI, the same
\* normalized title.
DoiOf(p) == Lower(RStrip(LStrip(p.doi)))
SamePaper(a, b) ==
    \/ DoiOf(a) # <<>> /\ DoiOf(a) = DoiOf(b)
    \/ DoiOf(a) = <<>> /\ DoiOf(b) = <<>>
       /\ norm_title(a.title) # <<>> /\ norm_title(a.title) = norm_title(b.title)
Keyed(p) == DoiOf(p) # <<>> \/ norm_title(p.title) # <<>>

\* The source names of a record: its sources list or else its source, blanks
\* around a name and empty names dropped.
NamesOf(p) ==
    { RStrip(LStrip(source_list(p)[i])) : i \in 1..Len(source_list(p)) } \ {<<>>}

\* C24: the records of one paper (same DOI or, without a DOI, same normalized
\* title) are collapsed into one paper; its sources list holds the sources of
\* every record of the group, each once, whatever the order of arrival; and
\* its source field is that of the record that won the comparisons.
C24_DedupKeepsProvenance ==
    DedupDone =>
        /\ \A i \in 1..Len(dd_papers) :
              Keyed(dd_papers[i]) =>
                 \E k \in 1..Len(by_key) :
                    /\ SamePaper(dd_papers[by_key[k].from], dd_papers[i])
                    /\ \A m \in 1..Len(by_key) :
                          SamePaper(dd_papers[by_key[m].from], dd_papers[i]) => m = k
        /\ \A k \in 1..Len(by_key) :
              LET kept == by_key[k].paper
                  group == { j \in 1..Len(dd_papers) :
                                SamePaper(dd_papers[j], dd_papers[by_key[k].from]) }
              IN  /\ kept.source = dd_papers[by_key[k].from].source
                  /\ Keyed(dd_papers[by_key[k].from]) =>
                        /\ { kept.sources[n] : n \in 1..Len(kept.sources) }
                              = UNION { NamesOf(dd_papers[j]) : j \in group }
                        /\ \A n1, n2 \in 1..Len(kept.sources) :
                              kept.sources[n1] = kept.sources[n2] => n1 = n2

\* Three records of one DOI from two sources, the second one winning: one
\* paper, with the winner's source and both sources listed.
C24_Witness ==
    /\ DedupDone /\ Len(dd_papers) = 3 /\ Len(by_key) = 1
    /\ by_key[1].from = 2
    /\ by_key[1].paper.source = OpenAlexName
    /\ by_key[1].paper.sources = <<CrossrefName, OpenAlexName>>

-----------------------------------------------------------------------------
(* Claims about relevance_rank_with_source_diversity *)

RankDone == rk_pc = "done"
SourceAt(r) == bucket_source(rk_papers[rk_ranked[r]])
InputSources == { bucket_source(rk_papers[i]) : i \in 1..Len(rk_papers) }

\* C25: the result holds exactly min(limit, number of papers) papers, each
\* input paper at most once; with papers of k distinct sources in the input
\* the first min(k, limit) results come from pairwise distinct sources; and
\* the papers of one source appear in non-increasing relevance score.
C25_RankInterleavesSources ==
    RankDone =>
        /\ Len(rk_ranked) = Min(rk_limit, Len(rk_papers))
        /\ \A r1, r2 \in 1..Len(rk_ranked) : rk_ranked[r1] = rk_ranked[r2] => r1 = r2
        /\ \A r1, r2 \in 1..Min(Cardinality(InputSources), rk_limit) :
              SourceAt(r1) = SourceAt(r2) => r1 = r2
        /\ \A r1, r2 \in 1..Len(rk_ranked) :
              (r1 < r2 /\ SourceAt(r1) = SourceAt(r2))
                 => rk_scores[rk_ranked[r1]] >= rk_scores[rk_ranked[r2]]

\* Four papers of three sources, the better OpenAlex paper second in the
\* input: the first three results are of three sources and the two OpenAlex
\* papers come best first.
C25_Witness ==
    /\ RankDone /\ Len(rk_papers) = 4 /\ rk_limit = 4 /\ Len(rk_ranked) = 4
    /\ Cardinality(InputSources) = 3
    /\ rk_papers[1].source = OpenAlexName /\ rk_papers[2].source = OpenAlexName
    /\ rk_scores[1] < rk_scores[2]
    /\ rk_ranked[1] = 2 /\ rk_ranked[4] = 1

====
